---- MODULE Spec2Model ----
(***************************************************************************)
(* The File Organization Engine of enhanced_file_organizer.py:             *)
(* FileOrganizer.organize_files (scan, classify, resolve, move, journal),  *)
(* the junk deletion prompt, the empty-directory reaper, the persisted     *)
(* journal and undo_last_organization, over an explicit filesystem.        *)
(*                                                                         *)
(* Text is modelled as tuples of one-character strings, so that lower(),   *)
(* upper(), substring tests, Path.stem / Path.suffix and f-strings are     *)
(* computed on characters.  A path is the tuple of its components; the     *)
(* path string is the components joined by os.sep behind a leading os.sep. *)
(***************************************************************************)
EXTENDS Integers, Sequences, FiniteSets, TLC

(***************************************************************************)
(* Characters and strings (Python str methods used by the organizer)       *)
(***************************************************************************)
ascii_uppercase ==
  <<"A","B","C","D","E","F","G","H","I","J","K","L","M",
    "N","O","P","Q","R","S","T","U","V","W","X","Y","Z">>

ascii_lowercase ==
  <<"a","b","c","d","e","f","g","h","i","j","k","l","m",
    "n","o","p","q","r","s","t","u","v","w","x","y","z">>

char_lower(c) ==
  IF \E i \in 1..26 : ascii_uppercase[i] = c
  THEN ascii_lowercase[CHOOSE i \in 1..26 : ascii_uppercase[i] = c]
  ELSE c

char_upper(c) ==
  IF \E i \in 1..26 : ascii_lowercase[i] = c
  THEN ascii_uppercase[CHOOSE i \in 1..26 : ascii_lowercase[i] = c]
  ELSE c

char_isalpha(c) ==
  \E i \in 1..26 : ascii_uppercase[i] = c \/ ascii_lowercase[i] = c

\* str.lower()
str_lower(s) == [i \in 1..Len(s) |-> char_lower(s[i])]

\* str.upper()
str_upper(s) == [i \in 1..Len(s) |-> char_upper(s[i])]

\* str.title(): a letter is upper-cased when it does not follow a letter
str_title(s) ==
  [i \in 1..Len(s) |->
     IF i = 1 \/ ~char_isalpha(s[i - 1]) THEN char_upper(s[i]) ELSE char_lower(s[i])]

\* needle in hay
str_contains(needle, hay) ==
  \E i \in 0..(Len(hay) - Len(needle)) :
     \A j \in 1..Len(needle) : hay[i + j] = needle[j]

\* s.startswith(prefix)
str_startswith(s, prefix) ==
  /\ Len(prefix) <= Len(s)
  /\ \A j \in 1..Len(prefix) : s[j] = prefix[j]

\* s.replace(c, "") for a one-character c
str_remove(s, c) == SelectSeq(s, LAMBDA ch : ch # c)

decimal_digits == <<"0","1","2","3","4","5","6","7","8","9">>

\* str(n) for a natural number n
RECURSIVE str_int(_)
str_int(n) ==
  IF n < 10 THEN <<decimal_digits[n + 1]>>
  ELSE str_int(n \div 10) \o <<decimal_digits[(n % 10) + 1]>>

\* f"{n:02d}"
str_int_02d(n) == IF n < 10 THEN <<"0">> \o str_int(n) ELSE str_int(n)

(***************************************************************************)
(* Paths (os.path and pathlib)                                             *)
(***************************************************************************)
os_sep == "/"

\* the path string of a tuple of components
RECURSIVE path_str(_)
path_str(p) ==
  IF p = <<>> THEN <<>>
  ELSE path_str(SubSeq(p, 1, Len(p) - 1)) \o <<os_sep>> \o p[Len(p)]

\* os.path.join(p, name)
path_join(p, name) == Append(p, name)

\* os.path.basename(p), Path(p).name
path_basename(p) == p[Len(p)]

\* os.path.dirname(p), Path(p).parent
path_parent(p) == SubSeq(p, 1, Len(p) - 1)

\* Path(p).parts: the root and the components
path_parts(p) == <<<<os_sep>>>> \o p

\* x.count(os.sep)
path_count_sep(p) == Len(SelectSeq(path_str(p), LAMBDA ch : ch = os_sep))

\* name.rfind("."), 0 when there is no dot (positions from 1)
name_rfind_dot(name) ==
  IF \E i \in 1..Len(name) : name[i] = "."
  THEN CHOOSE i \in 1..Len(name) :
         name[i] = "." /\ \A j \in (i + 1)..Len(name) : name[j] # "."
  ELSE 0

\* Path(p).suffix
path_suffix(p) ==
  LET name == path_basename(p)
      i    == name_rfind_dot(name)
  IN IF 1 < i /\ i < Len(name) THEN SubSeq(name, i, Len(name)) ELSE <<>>

\* Path(p).stem
path_stem(p) ==
  LET name == path_basename(p)
      i    == name_rfind_dot(name)
  IN IF 1 < i /\ i < Len(name) THEN SubSeq(name, 1, i - 1) ELSE name

\* p is d or lies under d
path_under(p, d) == Len(d) <= Len(p) /\ SubSeq(p, 1, Len(d)) = d

(***************************************************************************)
(* Config                                                                  *)
(***************************************************************************)
SYSTEM_PROTECTED ==
  << <<"W","i","n","d","o","w","s">>,
     <<"A","n","d","r","o","i","d">>,
     <<"P","r","o","g","r","a","m"," ","F","i","l","e","s">>,
     <<"S","y","s","t","e","m","3","2">>,
     <<"S","y","s","t","e","m"," ","V","o","l","u","m","e"," ","I","n","f","o","r","m","a","t","i","o","n">>,
     <<"P","r","o","g","r","a","m","D","a","t","a">>,
     <<"R","e","c","o","v","e","r","y">>,
     <<"B","o","o","t">>,
     <<"$","R","e","c","y","c","l","e",".","B","i","n">>,
     <<"h","i","b","e","r","f","i","l",".","s","y","s">>,
     <<"p","a","g","e","f","i","l","e",".","s","y","s">> >>

FILE_MAP ==
  <<
     [category |-> <<"D","o","c","u","m","e","n","t","s">>, subcategory |-> <<"P","D","F">>,
      extensions |-> <<<<".","p","d","f">>>>],
     [category |-> <<"D","o","c","u","m","e","n","t","s">>, subcategory |-> <<"W","o","r","d">>,
      extensions |-> <<<<".","d","o","c">>, <<".","d","o","c","x">>, <<".","d","o","t">>, <<".","d","o","t","x">>, <<".","d","o","c","m">>>>],
     [category |-> <<"D","o","c","u","m","e","n","t","s">>, subcategory |-> <<"P","o","w","e","r","P","o","i","n","t">>,
      extensions |-> <<<<".","p","p","t">>, <<".","p","p","t","x">>, <<".","p","p","s">>, <<".","p","p","s","x">>, <<".","o","d","p">>, <<".","p","o","t","x">>>>],
     [category |-> <<"D","o","c","u","m","e","n","t","s">>, subcategory |-> <<"E","x","c","e","l">>,
      extensions |-> <<<<".","x","l","s">>, <<".","x","l","s","x">>, <<".","x","l","s","m">>, <<".","c","s","v">>, <<".","o","d","s">>, <<".","x","l","s","b">>>>],
     [category |-> <<"D","o","c","u","m","e","n","t","s">>, subcategory |-> <<"T","e","x","t">>,
      extensions |-> <<<<".","t","x","t">>, <<".","r","t","f">>, <<".","m","d">>, <<".","t","e","x">>, <<".","l","o","g">>, <<".","r","e","a","d","m","e">>, <<".","r","s","t">>>>],
     [category |-> <<"D","o","c","u","m","e","n","t","s">>, subcategory |-> <<"e","B","o","o","k","s">>,
      extensions |-> <<<<".","e","p","u","b">>, <<".","m","o","b","i">>, <<".","a","z","w","3">>, <<".","d","j","v","u">>, <<".","f","b","2">>, <<".","l","i","t">>>>],
     [category |-> <<"D","o","c","u","m","e","n","t","s">>, subcategory |-> <<"X","P","S">>,
      extensions |-> <<<<".","x","p","s">>, <<".","o","x","p","s">>>>],
     [category |-> <<"D","o","c","u","m","e","n","t","s">>, subcategory |-> <<"O","t","h","e","r","D","o","c","s">>,
      extensions |-> <<<<".","o","d","t">>, <<".","a","b","w">>, <<".","p","a","g","e","s">>, <<".","w","p","d">>, <<".","w","p","s">>, <<".","g","d","o","c">>>>],
     [category |-> <<"I","m","a","g","e","s">>, subcategory |-> <<"J","P","E","G">>,
      extensions |-> <<<<".","j","p","g">>, <<".","j","p","e","g">>, <<".","j","p","e">>, <<".","j","f","i","f">>>>],
     [category |-> <<"I","m","a","g","e","s">>, subcategory |-> <<"P","N","G">>,
      extensions |-> <<<<".","p","n","g">>>>],
     [category |-> <<"I","m","a","g","e","s">>, subcategory |-> <<"G","I","F">>,
      extensions |-> <<<<".","g","i","f">>>>],
     [category |-> <<"I","m","a","g","e","s">>, subcategory |-> <<"W","e","b","P">>,
      extensions |-> <<<<".","w","e","b","p">>>>],
     [category |-> <<"I","m","a","g","e","s">>, subcategory |-> <<"B","M","P">>,
      extensions |-> <<<<".","b","m","p">>, <<".","d","i","b">>>>],
     [category |-> <<"I","m","a","g","e","s">>, subcategory |-> <<"T","I","F","F">>,
      extensions |-> <<<<".","t","i","f">>, <<".","t","i","f","f">>>>],
     [category |-> <<"I","m","a","g","e","s">>, subcategory |-> <<"H","E","I","C">>,
      extensions |-> <<<<".","h","e","i","c">>, <<".","h","e","i","f">>>>],
     [category |-> <<"I","m","a","g","e","s">>, subcategory |-> <<"R","A","W">>,
      extensions |-> <<<<".","r","a","w">>, <<".","c","r","2">>, <<".","n","e","f">>, <<".","a","r","w">>, <<".","o","r","f">>, <<".","s","r","2">>, <<".","d","n","g">>, <<".","r","w","2">>>>],
     [category |-> <<"I","m","a","g","e","s">>, subcategory |-> <<"S","V","G">>,
      extensions |-> <<<<".","s","v","g">>, <<".","s","v","g","z">>>>],
     [category |-> <<"I","m","a","g","e","s">>, subcategory |-> <<"O","t","h","e","r","I","m","a","g","e","s">>,
      extensions |-> <<<<".","i","c","o">>, <<".","i","c","n","s">>, <<".","p","p","m">>, <<".","p","g","m">>, <<".","p","b","m">>, <<".","p","s","d">>, <<".","x","c","f">>, <<".","a","i">>>>],
     [category |-> <<"V","i","d","e","o","s">>, subcategory |-> <<"M","P","4">>,
      extensions |-> <<<<".","m","p","4">>, <<".","m","4","v">>>>],
     [category |-> <<"V","i","d","e","o","s">>, subcategory |-> <<"M","K","V">>,
      extensions |-> <<<<".","m","k","v">>>>],
     [category |-> <<"V","i","d","e","o","s">>, subcategory |-> <<"A","V","I">>,
      extensions |-> <<<<".","a","v","i">>>>],
     [category |-> <<"V","i","d","e","o","s">>, subcategory |-> <<"M","O","V">>,
      extensions |-> <<<<".","m","o","v">>, <<".","q","t">>>>],
     [category |-> <<"V","i","d","e","o","s">>, subcategory |-> <<"W","M","V">>,
      extensions |-> <<<<".","w","m","v">>, <<".","a","s","f">>>>],
     [category |-> <<"V","i","d","e","o","s">>, subcategory |-> <<"F","L","V">>,
      extensions |-> <<<<".","f","l","v">>, <<".","f","4","v">>>>],
     [category |-> <<"V","i","d","e","o","s">>, subcategory |-> <<"W","e","b","M">>,
      extensions |-> <<<<".","w","e","b","m">>>>],
     [category |-> <<"V","i","d","e","o","s">>, subcategory |-> <<"M","T","S">>,
      extensions |-> <<<<".","m","t","s">>, <<".","m","2","t","s">>, <<".","t","s">>>>],
     [category |-> <<"V","i","d","e","o","s">>, subcategory |-> <<"3","G","P">>,
      extensions |-> <<<<".","3","g","p">>, <<".","3","g","2">>>>],
     [category |-> <<"V","i","d","e","o","s">>, subcategory |-> <<"O","t","h","e","r","V","i","d","e","o","s">>,
      extensions |-> <<<<".","v","o","b">>, <<".","m","p","g">>, <<".","m","p","e","g">>, <<".","o","g","v">>, <<".","r","m","v","b">>, <<".","d","i","v","x">>, <<".","m","2","v">>>>],
     [category |-> <<"A","u","d","i","o">>, subcategory |-> <<"M","P","3">>,
      extensions |-> <<<<".","m","p","3">>>>],
     [category |-> <<"A","u","d","i","o">>, subcategory |-> <<"W","A","V">>,
      extensions |-> <<<<".","w","a","v">>>>],
     [category |-> <<"A","u","d","i","o">>, subcategory |-> <<"F","L","A","C">>,
      extensions |-> <<<<".","f","l","a","c">>>>],
     [category |-> <<"A","u","d","i","o">>, subcategory |-> <<"A","A","C">>,
      extensions |-> <<<<".","a","a","c">>, <<".","m","4","a">>>>],
     [category |-> <<"A","u","d","i","o">>, subcategory |-> <<"O","G","G">>,
      extensions |-> <<<<".","o","g","g">>, <<".","o","g","a">>>>],
     [category |-> <<"A","u","d","i","o">>, subcategory |-> <<"W","M","A">>,
      extensions |-> <<<<".","w","m","a">>>>],
     [category |-> <<"A","u","d","i","o">>, subcategory |-> <<"M","I","D","I">>,
      extensions |-> <<<<".","m","i","d">>, <<".","m","i","d","i">>>>],
     [category |-> <<"A","u","d","i","o">>, subcategory |-> <<"O","t","h","e","r","A","u","d","i","o">>,
      extensions |-> <<<<".","o","p","u","s">>, <<".","a","m","r">>, <<".","a","i","f","f">>, <<".","a","u">>, <<".","r","a">>, <<".","a","c","3">>, <<".","d","t","s">>>>],
     [category |-> <<"C","o","m","p","r","e","s","s","e","d">>, subcategory |-> <<"Z","I","P">>,
      extensions |-> <<<<".","z","i","p">>, <<".","z","i","p","x">>>>],
     [category |-> <<"C","o","m","p","r","e","s","s","e","d">>, subcategory |-> <<"R","A","R">>,
      extensions |-> <<<<".","r","a","r">>, <<".","r","0","0">>, <<".","r","0","1">>, <<".","r","0","2">>>>],
     [category |-> <<"C","o","m","p","r","e","s","s","e","d">>, subcategory |-> <<"7","Z">>,
      extensions |-> <<<<".","7","z">>>>],
     [category |-> <<"C","o","m","p","r","e","s","s","e","d">>, subcategory |-> <<"T","A","R">>,
      extensions |-> <<<<".","t","a","r">>, <<".","t","a","r",".","g","z">>, <<".","t","g","z">>, <<".","t","a","r",".","b","z","2">>, <<".","t","a","r",".","x","z">>>>],
     [category |-> <<"C","o","m","p","r","e","s","s","e","d">>, subcategory |-> <<"G","Z">>,
      extensions |-> <<<<".","g","z">>, <<".","b","z","2">>, <<".","x","z">>, <<".","l","z">>, <<".","l","z","m","a">>>>],
     [category |-> <<"C","o","m","p","r","e","s","s","e","d">>, subcategory |-> <<"I","S","O">>,
      extensions |-> <<<<".","i","s","o">>, <<".","i","m","g">>, <<".","b","i","n">>, <<".","c","u","e">>, <<".","m","d","f">>>>],
     [category |-> <<"C","o","m","p","r","e","s","s","e","d">>, subcategory |-> <<"D","M","G">>,
      extensions |-> <<<<".","d","m","g">>>>],
     [category |-> <<"C","o","m","p","r","e","s","s","e","d">>, subcategory |-> <<"O","t","h","e","r","A","r","c","h","i","v","e","s">>,
      extensions |-> <<<<".","c","a","b">>, <<".","a","c","e">>, <<".","z">>, <<".","s","i","t">>, <<".","s","i","t","x">>, <<".","p","a","k">>>>],
     [category |-> <<"E","x","e","c","u","t","a","b","l","e","s">>, subcategory |-> <<"W","i","n","d","o","w","s">>,
      extensions |-> <<<<".","e","x","e">>, <<".","m","s","i">>, <<".","s","c","r">>, <<".","c","o","m">>, <<".","b","a","t">>, <<".","c","m","d">>>>],
     [category |-> <<"E","x","e","c","u","t","a","b","l","e","s">>, subcategory |-> <<"L","i","n","u","x">>,
      extensions |-> <<<<".","d","e","b">>, <<".","r","p","m">>, <<".","r","u","n">>, <<".","s","h">>, <<".","a","p","p","i","m","a","g","e">>, <<".","s","n","a","p">>>>],
     [category |-> <<"E","x","e","c","u","t","a","b","l","e","s">>, subcategory |-> <<"M","a","c">>,
      extensions |-> <<<<".","p","k","g">>, <<".","d","m","g">>, <<".","a","p","p">>>>],
     [category |-> <<"E","x","e","c","u","t","a","b","l","e","s">>, subcategory |-> <<"S","c","r","i","p","t","s">>,
      extensions |-> <<<<".","p","s","1">>, <<".","v","b","s">>, <<".","p","y">>, <<".","p","l">>, <<".","r","b">>>>],
     [category |-> <<"E","x","e","c","u","t","a","b","l","e","s">>, subcategory |-> <<"O","t","h","e","r","B","i","n","s">>,
      extensions |-> <<<<".","b","i","n">>, <<".","o","u","t">>, <<".","e","l","f">>, <<".","s","o">>, <<".","d","l","l">>>>],
     [category |-> <<"M","o","b","i","l","e","A","p","p","s">>, subcategory |-> <<"A","n","d","r","o","i","d">>,
      extensions |-> <<<<".","a","p","k">>, <<".","x","a","p","k">>, <<".","a","p","k","s">>, <<".","a","a","b">>>>],
     [category |-> <<"M","o","b","i","l","e","A","p","p","s">>, subcategory |-> <<"i","O","S">>,
      extensions |-> <<<<".","i","p","a">>>>],
     [category |-> <<"C","o","d","e">>, subcategory |-> <<"P","y","t","h","o","n">>,
      extensions |-> <<<<".","p","y">>, <<".","p","y","w">>, <<".","p","y","x">>, <<".","p","y","i">>, <<".","i","p","y","n","b">>>>],
     [category |-> <<"C","o","d","e">>, subcategory |-> <<"W","e","b">>,
      extensions |-> <<<<".","h","t","m","l">>, <<".","h","t","m">>, <<".","c","s","s">>, <<".","j","s">>, <<".","t","s">>, <<".","j","s","x">>, <<".","t","s","x">>, <<".","v","u","e">>, <<".","s","v","e","l","t","e">>>>],
     [category |-> <<"C","o","d","e">>, subcategory |-> <<"J","a","v","a">>,
      extensions |-> <<<<".","j","a","v","a">>, <<".","j","a","r">>, <<".","c","l","a","s","s">>, <<".","s","c","a","l","a">>, <<".","k","t">>>>],
     [category |-> <<"C","o","d","e">>, subcategory |-> <<"C","_","C","P","P">>,
      extensions |-> <<<<".","c">>, <<".","c","p","p">>, <<".","c","c">>, <<".","c","x","x">>, <<".","h">>, <<".","h","p","p">>, <<".","h","x","x">>>>],
     [category |-> <<"C","o","d","e">>, subcategory |-> <<"S","c","r","i","p","t","s">>,
      extensions |-> <<<<".","s","h">>, <<".","b","a","s","h">>, <<".","z","s","h">>, <<".","f","i","s","h">>, <<".","c","s","h">>, <<".","t","c","s","h">>>>],
     [category |-> <<"C","o","d","e">>, subcategory |-> <<"D","a","t","a">>,
      extensions |-> <<<<".","j","s","o","n">>, <<".","x","m","l">>, <<".","y","m","l">>, <<".","y","a","m","l">>, <<".","t","o","m","l">>, <<".","i","n","i">>, <<".","c","f","g">>>>],
     [category |-> <<"C","o","d","e">>, subcategory |-> <<"P","H","P">>,
      extensions |-> <<<<".","p","h","p">>, <<".","p","h","t","m","l">>>>],
     [category |-> <<"C","o","d","e">>, subcategory |-> <<"S","Q","L">>,
      extensions |-> <<<<".","s","q","l">>, <<".","d","b">>, <<".","s","q","l","i","t","e">>, <<".","s","q","l","i","t","e","3">>>>],
     [category |-> <<"C","o","d","e">>, subcategory |-> <<"O","t","h","e","r">>,
      extensions |-> <<<<".","r","s">>, <<".","g","o">>, <<".","p","l">>, <<".","r","b">>, <<".","l","u","a">>, <<".","c","s">>, <<".","s","w","i","f","t">>, <<".","d","a","r","t">>, <<".","r">>>>],
     [category |-> <<"S","y","s","t","e","m">>, subcategory |-> <<"L","o","g","s">>,
      extensions |-> <<<<".","l","o","g">>, <<".","t","r","a","c","e">>, <<".","o","u","t">>>>],
     [category |-> <<"S","y","s","t","e","m">>, subcategory |-> <<"C","o","n","f","i","g">>,
      extensions |-> <<<<".","i","n","i">>, <<".","c","f","g">>, <<".","c","o","n","f">>, <<".","r","e","g">>, <<".","p","l","i","s","t">>, <<".","s","e","t","t","i","n","g","s">>>>],
     [category |-> <<"S","y","s","t","e","m">>, subcategory |-> <<"C","a","c","h","e">>,
      extensions |-> <<<<".","t","m","p">>, <<".","t","e","m","p">>, <<".","b","a","k">>, <<".","o","l","d">>, <<".","s","w","p">>, <<".","s","w","o">>, <<".","o","r","i","g">>, <<".","c","a","c","h","e">>>>],
     [category |-> <<"F","o","n","t","s">>, subcategory |-> <<"T","r","u","e","T","y","p","e">>,
      extensions |-> <<<<".","t","t","f">>, <<".","t","t","c">>>>],
     [category |-> <<"F","o","n","t","s">>, subcategory |-> <<"O","p","e","n","T","y","p","e">>,
      extensions |-> <<<<".","o","t","f">>>>],
     [category |-> <<"F","o","n","t","s">>, subcategory |-> <<"O","t","h","e","r">>,
      extensions |-> <<<<".","w","o","f","f">>, <<".","w","o","f","f","2">>, <<".","e","o","t">>, <<".","p","f","b">>, <<".","p","f","m">>>>],
     [category |-> <<"3","D","_","M","o","d","e","l","s">>, subcategory |-> <<"C","o","m","m","o","n">>,
      extensions |-> <<<<".","o","b","j">>, <<".","f","b","x">>, <<".","d","a","e">>, <<".","3","d","s">>, <<".","b","l","e","n","d">>, <<".","m","a","x">>, <<".","m","a">>, <<".","m","b">>>>],
     [category |-> <<"3","D","_","M","o","d","e","l","s">>, subcategory |-> <<"C","A","D">>,
      extensions |-> <<<<".","d","w","g">>, <<".","d","x","f">>, <<".","s","t","e","p">>, <<".","s","t","p">>, <<".","i","g","e","s">>, <<".","i","g","s">>>>],
     [category |-> <<"3","D","_","M","o","d","e","l","s">>, subcategory |-> <<"S","T","L">>,
      extensions |-> <<<<".","s","t","l">>, <<".","p","l","y">>>>]
  >>

JUNK_FOLDER == <<"J","u","n","k">>

MAX_WORKERS == 4

\* the closed enums OrganizationMode and DuplicateHandling
OrganizationMode == {"BY_TYPE", "BY_DATE", "BY_SIZE", "BY_EXTENSION"}

DuplicateHandling == {"RENAME", "SKIP", "REPLACE", "MERGE_TO_DUPLICATES"}

\* Python's None
None == "None"

(***************************************************************************)
(* The filesystem: files is a function from the paths of the regular files *)
(* to their [content, size, mtime]; dirs is the set of directory paths.    *)
(***************************************************************************)
\* os.path.exists(p), Path(p).exists()
path_exists(files, dirs, p) == p \in DOMAIN files \/ p \in dirs

\* Path(d).mkdir(parents=True, exist_ok=True), os.makedirs(d, exist_ok=True)
mkdir_parents(dirs, d) == dirs \cup {SubSeq(d, 1, k) : k \in 1..Len(d)}

\* shutil.move(source, destination) of a regular file onto a file path:
\* the entry of source becomes the entry of destination, replacing any
\* file that was there
shutil_move(files, source, destination) ==
  [q \in (DOMAIN files \ {source}) \cup {destination} |->
     IF q = destination THEN files[source] ELSE files[q]]

\* the entries of directory d (os.scandir)
scandir_files(files, d) == {p \in DOMAIN files : path_parent(p) = d}

scandir_dirs(dirs, d) == {p \in dirs : p # <<>> /\ path_parent(p) = d}

(***************************************************************************)
(* Path Guard                                                              *)
(***************************************************************************)
system_indicators ==
  { <<"s","y","s","t","e","m">>,
    <<"w","i","n","d","o","w","s">>,
    <<"p","r","o","g","r","a","m"," ","f","i","l","e","s">>,
    <<"p","r","o","g","r","a","m","d","a","t","a">>,
    <<"r","e","c","o","v","e","r","y">> }

is_protected_path(path) ==
  LET path_lower == str_lower(path_str(path))
      parts      == path_parts([i \in 1..Len(path) |-> str_lower(path[i])])
  IN \/ \E k \in 1..Len(SYSTEM_PROTECTED) :
          str_contains(str_lower(SYSTEM_PROTECTED[k]), path_lower)
     \/ \E i \in 1..Len(parts) : parts[i] \in system_indicators

(***************************************************************************)
(* Category Registry                                                       *)
(***************************************************************************)
\* mimetypes.guess_type(file_path)[0] as (main type, sub type): the
\* library's table, for the suffixes of the model that FILE_MAP lacks
mimetypes_guess_type(file_path) ==
  LET ext == str_lower(path_suffix(file_path))
  IN CASE ext = <<".","i","c","s">> ->
            << <<"t","e","x","t">>, <<"c","a","l","e","n","d","a","r">> >>
       [] ext = <<".","e","m","l">> ->
            << <<"m","e","s","s","a","g","e">>, <<"r","f","c","8","2","2">> >>
       [] OTHER -> None

mime_category_map(main_type) ==
  CASE main_type = <<"t","e","x","t">> -> <<"D","o","c","u","m","e","n","t","s">>
    [] main_type = <<"i","m","a","g","e">> -> <<"I","m","a","g","e","s">>
    [] main_type = <<"v","i","d","e","o">> -> <<"V","i","d","e","o","s">>
    [] main_type = <<"a","u","d","i","o">> -> <<"A","u","d","i","o">>
    [] main_type = <<"a","p","p","l","i","c","a","t","i","o","n">> -> <<"D","o","c","u","m","e","n","t","s">>
    [] OTHER -> <<"O","t","h","e","r","s">>

detect_mime_type(file_path) ==
  LET mime_type == mimetypes_guess_type(file_path)
  IN IF mime_type = None
     THEN << <<"O","t","h","e","r","s">>, <<"U","n","k","n","o","w","n">> >>
     ELSE << mime_category_map(mime_type[1]), str_title(mime_type[2]) >>

\* ext in extensions
ext_in(ext, extensions) == \E j \in 1..Len(extensions) : extensions[j] = ext

get_file_category(file_path) ==
  LET ext == str_lower(path_suffix(file_path))
  IN IF ext = <<>> THEN detect_mime_type(file_path)
     ELSE IF \E k \in 1..Len(FILE_MAP) : ext_in(ext, FILE_MAP[k].extensions)
     THEN LET k == CHOOSE k \in 1..Len(FILE_MAP) :
                     /\ ext_in(ext, FILE_MAP[k].extensions)
                     /\ \A m \in 1..(k - 1) : ~ext_in(ext, FILE_MAP[m].extensions)
          IN << FILE_MAP[k].category, FILE_MAP[k].subcategory >>
     ELSE IF detect_mime_type(file_path)[1] # <<"O","t","h","e","r","s">>
     THEN detect_mime_type(file_path)
     ELSE << <<"O","t","h","e","r","s">>, <<"U","n","c","a","t","e","g","o","r","i","z","e","d">> >>

(***************************************************************************)
(* Classifier                                                              *)
(***************************************************************************)
\* date.strftime('%B')
month_name ==
  << <<"J","a","n","u","a","r","y">>, <<"F","e","b","r","u","a","r","y">>,
     <<"M","a","r","c","h">>, <<"A","p","r","i","l">>,
     <<"M","a","y">>, <<"J","u","n","e">>,
     <<"J","u","l","y">>, <<"A","u","g","u","s","t">>,
     <<"S","e","p","t","e","m","b","e","r">>, <<"O","c","t","o","b","e","r">>,
     <<"N","o","v","e","m","b","e","r">>, <<"D","e","c","e","m","b","e","r">> >>

BytesPerKB == 1024

BytesPerMB == 1024 * 1024

\* BY_SIZE: size_mb = getsize / (1024 * 1024) against 1, 10 and 100
size_category(size_bytes) ==
  IF size_bytes < 1 * BytesPerMB THEN <<"S","m","a","l","l"," ","(","<"," ","1","M","B",")">>
  ELSE IF size_bytes < 10 * BytesPerMB THEN <<"M","e","d","i","u","m"," ","(","1","-","1","0","M","B",")">>
  ELSE IF size_bytes < 100 * BytesPerMB THEN <<"L","a","r","g","e"," ","(","1","0","-","1","0","0","M","B",")">>
  ELSE <<"V","e","r","y"," ","L","a","r","g","e"," ","(",">"," ","1","0","0","M","B",")">>

\* meta is the os.stat of file_path: [content, size, mtime |-> [year, month]]
get_organization_path(file_path, meta, target, mode) ==
  IF mode = "BY_TYPE"
  THEN LET c == get_file_category(file_path)
       IN path_join(path_join(target, c[1]), c[2])
  ELSE IF mode = "BY_DATE"
  THEN path_join(path_join(path_join(target, <<"B","y"," ","D","a","t","e">>),
                           str_int(meta.mtime.year)),
                 str_int_02d(meta.mtime.month) \o <<"-">> \o month_name[meta.mtime.month])
  ELSE IF mode = "BY_SIZE"
  THEN path_join(path_join(target, <<"B","y"," ","S","i","z","e">>), size_category(meta.size))
  ELSE LET ext == IF str_lower(path_suffix(file_path)) # <<>>
                  THEN str_lower(path_suffix(file_path))
                  ELSE <<"n","o","_","e","x","t","e","n","s","i","o","n">>
       IN path_join(path_join(target, <<"B","y"," ","E","x","t","e","n","s","i","o","n">>),
                    IF ext # <<"n","o","_","e","x","t","e","n","s","i","o","n">>
                    THEN str_upper(str_remove(ext, "."))
                    ELSE <<"N","O","_","E","X","T","E","N","S","I","O","N">>)

(***************************************************************************)
(* Destination Resolver                                                    *)
(***************************************************************************)
\* the probe limit of the RENAME loop
RENAME_SAFETY_LIMIT == 1000

\* f"{stem} ({counter}){suffix}" under parent
rename_candidate(target_path, counter) ==
  path_join(path_parent(target_path),
            path_stem(target_path) \o <<" ", "(">> \o str_int(counter) \o <<")">>
              \o path_suffix(target_path))

\* f"{stem}_{timestamp}{suffix}" under parent; now is
\* datetime.now().strftime("%Y%m%d_%H%M%S")
timestamp_candidate(target_path, now) ==
  path_join(path_parent(target_path),
            path_stem(target_path) \o <<"_">> \o now \o path_suffix(target_path))

\* generate_unique_filename with a RENAME that does not probe
generate_unique_filename_no_probe(files, dirs, target_path, duplicate_handling, now) ==
  IF duplicate_handling = "SKIP"
  THEN [path |-> None, dirs |-> dirs]
  ELSE IF duplicate_handling = "REPLACE"
  THEN [path |-> target_path, dirs |-> dirs]
  ELSE IF duplicate_handling = "MERGE_TO_DUPLICATES"
  THEN LET duplicates_folder == path_join(path_parent(target_path), <<"D","u","p","l","i","c","a","t","e","s">>)
       IN [path |-> path_join(duplicates_folder, path_basename(target_path)),
           dirs |-> dirs \cup {duplicates_folder}]
  ELSE [path |-> rename_candidate(target_path, 1), dirs |-> dirs]

\* the result of generate_unique_filename: the path it returns (None to skip)
\* and the directories after its mkdir
generate_unique_filename(files, dirs, target_path, duplicate_handling, now) ==
  IF duplicate_handling = "SKIP"
  THEN [path |-> None, dirs |-> dirs]
  ELSE IF duplicate_handling = "REPLACE"
  THEN [path |-> target_path, dirs |-> dirs]
  ELSE IF duplicate_handling = "MERGE_TO_DUPLICATES"
  THEN LET duplicates_folder == path_join(path_parent(target_path), <<"D","u","p","l","i","c","a","t","e","s">>)
       IN [path |-> path_join(duplicates_folder, path_basename(target_path)),
           dirs |-> dirs \cup {duplicates_folder}]
  ELSE LET existing == DOMAIN files \cup dirs   \* what new_path.exists() reads
       IN IF \E counter \in 1..RENAME_SAFETY_LIMIT :
                rename_candidate(target_path, counter) \notin existing
          THEN LET counter == CHOOSE counter \in 1..RENAME_SAFETY_LIMIT :
                                /\ rename_candidate(target_path, counter) \notin existing
                                /\ \A n \in 1..(counter - 1) :
                                      rename_candidate(target_path, n) \in existing
               IN [path |-> rename_candidate(target_path, counter), dirs |-> dirs]
          ELSE [path |-> timestamp_candidate(target_path, now), dirs |-> dirs]

\* hashlib.md5 of the content read by calculate_file_hash
calculate_file_hash(meta) == <<"md5", meta.content>>

(***************************************************************************)
(* Bounds of the model and the directory trees it runs on                  *)
(***************************************************************************)
\* I/O failures injected in one run
MaxFaults == 1

\* writes by other programs between the end of a run and its undo
MaxExternalWrites == 1

\* calls of remove_empty_directories_recursive from the window
MaxCleanupCalls == 2

\* organize_files calls made on one organizer
MaxRuns == 2

\* undo_last_organization calls made over one undo file
MaxUndoCalls == 2

\* the source root /a, its sub-directory /a/sub and the target /t
SourceRoot == << <<"a">> >>

SourceSub == path_join(SourceRoot, <<"s","u","b">>)

TargetRoot == << <<"t">> >>

File1 == path_join(SourceRoot, <<"x",".","e","x","e">>)

File2 == path_join(SourceSub, <<"x",".","e","x","e">>)

File3 == path_join(SourceSub, <<"y",".","j","p","g">>)

\* a protected directory /a/Recovery in the source tree, with a file in its
\* sub-directory /a/Recovery/old and an empty sub-directory /a/Recovery/tmp
ProtectedDir == path_join(SourceRoot, <<"R","e","c","o","v","e","r","y">>)

ProtectedNested == path_join(ProtectedDir, <<"o","l","d">>)

ProtectedEmpty == path_join(ProtectedDir, <<"t","m","p">>)

File4 == path_join(ProtectedNested, <<"z",".","e","x","e">>)

\* os.stat and content of the source files
FileMeta ==
  (File1 :> [content |-> "c1", size |-> 2048, mtime |-> [year |-> 2024, month |-> 3]]) @@
  (File2 :> [content |-> "c2", size |-> 2048, mtime |-> [year |-> 2024, month |-> 3]]) @@
  (File3 :> [content |-> "c3", size |-> 10240, mtime |-> [year |-> 2024, month |-> 3]]) @@
  (File4 :> [content |-> "c4", size |-> 2048, mtime |-> [year |-> 2024, month |-> 3]])

\* a file left in the target by an earlier run
EarlierMeta == [content |-> "c0", size |-> 2048, mtime |-> [year |-> 2023, month |-> 12]]

\* the sets of source files a run starts from
FileSets == { {File1, File2}, {File1, File3}, {File1, File4} }

\* the directories of the source tree that holds the files present
tree_dirs(present) ==
  {SourceRoot, SourceSub}
    \cup (IF File4 \in present THEN {ProtectedDir, ProtectedNested, ProtectedEmpty}
          ELSE {})

\* junk thresholds in KB: none, and MIN_JUNK_SIZE_KB_DEFAULT
MIN_JUNK_SIZE_KB_DEFAULT == 10

JunkThresholds == {0, MIN_JUNK_SIZE_KB_DEFAULT}

\* config.MAX_WORKERS of the Config the organizer is built with
WorkerCounts == {1, MAX_WORKERS}

\* values of datetime.now().strftime("%Y%m%d_%H%M%S")
Clock == { <<"2","0","2","4","0","3","0","1","_","1","2","0","0","0","0">>,
           <<"2","0","2","4","0","3","0","1","_","1","2","0","0","0","1">> }

(***************************************************************************)
(* State                                                                   *)
(***************************************************************************)
VARIABLES
  fs_files,        \* the regular files: path -> [content, size, mtime]
  fs_dirs,         \* the directories
  args,            \* the arguments of organize_files and config.MAX_WORKERS
  pc,              \* the position of the program
  all_files,       \* organize_files: the files collected by the scan
  task,            \* process_file(all_files[k]) in the thread pool
  junk_files,      \* organize_files: junk_files
  operations_log,  \* self.operations_log
  duplicate_map,   \* self.duplicate_map
  stats,           \* self.stats
  undo_file,       \* config.UNDO_FILE on disk
  reaper,          \* remove_empty_directories_recursive: iteration, total_removed
  undo,            \* undo_last_organization: position and tallies
  moved_files,     \* history: the shutil.move calls that succeeded
  fs_initial,      \* history: the files before the run
  faults,          \* history: I/O failures injected
  interfered,      \* history: writes by other programs
  calls,           \* history: the calls of organize_files and of undo made so far
  duplicate_file,  \* config.DUPLICATE_MAP_FILE on disk
  cancelled,       \* FileOrganizerImproved: self.cancelled
  cleanup_worker,  \* the window's cleanup thread: its call of the reaper
  preview_stats,   \* preview_organization: the category reported for each file
  window           \* the window: self.is_processing, and whether its progress dialog is open

vars == << fs_files, fs_dirs, args, pc, all_files, task, junk_files,
           operations_log, duplicate_map, stats, undo_file, reaper, undo,
           moved_files, fs_initial, faults, interfered, calls, duplicate_file,
           cancelled, cleanup_worker, preview_stats, window >>

\* FileOrganizer.__init__: self.stats
stats_init ==
  [moved |-> 0, skipped |-> 0, errors |-> 0, duplicates |-> 0, total_size |-> 0,
   protected_skipped |-> 0, empty_folders_removed |-> 0]

\* remove_empty_directories_recursive before its first call: the caller, the
\* locals of the call (empty_dirs, and todo for the part of empty_dirs_sorted
\* the for loop has not reached) and the values returned so far
reaper_init ==
  [caller |-> None, iteration |-> 0, total_removed |-> 0, removed_this_pass |-> 0,
   empty_dirs |-> {}, todo |-> {}, returned |-> <<>>]

\* the junk test taking a file of exactly the threshold as junk
process_file_is_junk_inclusive(meta, junk_threshold) ==
  meta.size <= junk_threshold * BytesPerKB

\* the calls made on the organizer so far, the undo calls that went on to
\* replay the journal, the length of the journal when the last organize_files
\* call began, and the cancel_operation calls made before the last run was
\* started
calls_init ==
  [organize_files |-> 0, undo |-> 0, replays |-> 0, log_start |-> 0,
   cancel_operation |-> 0, cancel_start |-> 0]

\* EnhancedFileOrganizerGUI.__init__: not processing, no progress dialog
window_init == [is_processing |-> FALSE, progress_dialog |-> FALSE]

\* the cleanup thread of the window before it is started: the locals of its
\* remove_empty_directories_recursive call and the values it returned
cleanup_worker_init ==
  [pc |-> "idle", iteration |-> 0, total_removed |-> 0, removed_this_pass |-> 0,
   todo |-> {}, returned |-> <<>>]

\* process_file: the destination of a file (Junk below the threshold)
process_file_is_junk(meta, junk_threshold) ==
  meta.size < junk_threshold * BytesPerKB

process_file_dest(file_path, meta, target, mode, junk_threshold) ==
  IF process_file_is_junk(meta, junk_threshold)
  THEN path_join(path_join(target, JUNK_FOLDER), path_basename(file_path))
  ELSE path_join(get_organization_path(file_path, meta, target, mode),
                 path_basename(file_path))

\* a process_file call: its position, the final destination, the hash and
\* the size of move_file_safe, and what it last read of the shared state
task_queued ==
  [pc |-> "queued", dest |-> None, hash |-> None, size |-> 0, load |-> 0,
   in_map |-> FALSE]

task_done ==
  [pc |-> "done", dest |-> None, hash |-> None, size |-> 0, load |-> 0,
   in_map |-> FALSE]

\* the state after FileOrganizer() on the tree (files, dirs), before
\* organize_files(run_args)
organizer_init(files, dirs, run_args) ==
  /\ fs_files = files
  /\ fs_dirs = dirs
  /\ args = run_args
  /\ pc = "organize_files"
  /\ all_files = <<>>
  /\ task = <<>>
  /\ junk_files = <<>>
  /\ operations_log = <<>>
  /\ duplicate_map = <<>>
  /\ stats = stats_init
  /\ undo_file = [exists |-> FALSE, operations |-> <<>>]
  /\ reaper = reaper_init
  /\ undo = [i |-> 0, undone |-> 0, skipped |-> 0, errors |-> 0]
  /\ moved_files = <<>>
  /\ fs_initial = files
  /\ faults = 0
  /\ interfered = 0
  /\ calls = calls_init
  /\ duplicate_file = [exists |-> FALSE, groups |-> <<>>]
  /\ cancelled = FALSE
  /\ cleanup_worker = cleanup_worker_init
  /\ preview_stats = <<>>
  /\ window = window_init

Init ==
  \E mode \in OrganizationMode, duplicate_handling \in DuplicateHandling,
     junk_threshold \in JunkThresholds, max_workers \in WorkerCounts,
     dry_run \in BOOLEAN, present \in FileSets, earlier \in BOOLEAN :
    \E first \in {p \in present : \A q \in present : Len(p) <= Len(q)} :
    \E left \in {process_file_dest(first, FileMeta[first], TargetRoot, mode, junk_threshold)} :
    \E files \in {IF earlier THEN (left :> EarlierMeta) @@ [p \in present |-> FileMeta[p]]
                  ELSE [p \in present |-> FileMeta[p]]} :
      organizer_init(
         files,
         IF earlier THEN mkdir_parents(tree_dirs(present), path_parent(left))
         ELSE tree_dirs(present) \cup {TargetRoot},
         [sources |-> <<SourceRoot>>, target |-> TargetRoot,
          junk_threshold |-> junk_threshold, mode |-> mode,
          duplicate_handling |-> duplicate_handling, dry_run |-> dry_run,
          max_workers |-> max_workers])

\* the numbers of ' (n)' siblings a RENAME run finds next to an occupied
\* candidate: one, all but the last probe, every probe
RenameDepths == {1, RENAME_SAFETY_LIMIT - 1, RENAME_SAFETY_LIMIT}

\* a run of File1 and File2, which have the same name, into a target where
\* the candidate of File1 and its first depth ' (n)' siblings exist (RENAME),
\* where the candidate and its first sibling exist (every policy), or where
\* nothing exists yet (every policy); twin: File2 is a copy of File1
InitRename ==
  \E mode \in {"BY_TYPE"}, junk_threshold \in JunkThresholds,
     max_workers \in WorkerCounts, depth \in RenameDepths,
     duplicate_handling \in DuplicateHandling, occupied \in BOOLEAN,
     twin \in BOOLEAN :
    /\ (duplicate_handling # "RENAME" \/ ~occupied \/ twin) => depth = 1
    /\ \E left \in {process_file_dest(File1, FileMeta[File1], TargetRoot, mode, junk_threshold)} :
       \E earlier \in {IF occupied
                       THEN {left} \cup {rename_candidate(left, n) : n \in 1..depth}
                       ELSE {}} :
       \E files \in {[p \in earlier |-> EarlierMeta]
                     @@ (File1 :> FileMeta[File1])
                     @@ (File2 :> IF twin
                                  THEN [FileMeta[File2] EXCEPT !.content = FileMeta[File1].content]
                                  ELSE FileMeta[File2])} :
         organizer_init(
            files,
            IF occupied THEN mkdir_parents({SourceRoot, SourceSub}, path_parent(left))
            ELSE {SourceRoot, SourceSub, TargetRoot},
            [sources |-> <<SourceRoot>>, target |-> TargetRoot,
             junk_threshold |-> junk_threshold, mode |-> mode,
             duplicate_handling |-> duplicate_handling, dry_run |-> FALSE,
             max_workers |-> max_workers])

(***************************************************************************)
(* organize_files: the scan                                                *)
(***************************************************************************)
\* the directories os.walk(source) visits
os_walk(dirs, source) == {d \in dirs : source \in dirs /\ path_under(d, source)}

\* the scan with the guard asked about the source root only
scan_files_root_guard(files, dirs, sources) ==
  {p \in DOMAIN files :
     \E i \in 1..Len(sources) :
        /\ path_parent(p) \in os_walk(dirs, sources[i])
        /\ ~is_protected_path(sources[i])}

\* the files of the directories the scan does not skip
scan_files(files, dirs, sources) ==
  {p \in DOMAIN files :
     \E i \in 1..Len(sources) :
        /\ path_parent(p) \in os_walk(dirs, sources[i])
        /\ ~is_protected_path(path_parent(p))}

\* the files of the directories the scan skips as protected
scan_protected(files, dirs, sources) ==
  {p \in DOMAIN files :
     \E i \in 1..Len(sources) :
        /\ path_parent(p) \in os_walk(dirs, sources[i])
        /\ is_protected_path(path_parent(p))}

\* os.walk is top-down: the files of a directory come before the files of
\* the directories below it; the order inside a directory is the listing's
walk_orders(found) ==
  {s \in [1..Cardinality(found) -> found] :
     /\ \A i, j \in DOMAIN s : i # j => s[i] # s[j]
     /\ \A i, j \in DOMAIN s :
          (i < j) => ~(/\ path_parent(s[j]) # path_parent(s[i])
                       /\ path_under(path_parent(s[i]), path_parent(s[j])))}

organize_files_scan ==
  /\ pc = "organize_files"
  /\ \E found \in {scan_files(fs_files, fs_dirs, args.sources)} :
       /\ \E order \in walk_orders(found) : all_files' = order
       /\ task' = [k \in 1..Cardinality(found) |-> task_queued]
       /\ stats' = [stats EXCEPT !.protected_skipped =
                      @ + Cardinality(scan_protected(fs_files, fs_dirs, args.sources))]
       /\ pc' = IF found = {} THEN "returned" ELSE "process"
  /\ calls' = [calls EXCEPT !.organize_files = @ + 1,
                            !.log_start = Len(operations_log)]
  /\ UNCHANGED << fs_files, fs_dirs, args, junk_files, operations_log, duplicate_map,
                  undo_file, reaper, undo, moved_files, fs_initial, faults, interfered,
                  duplicate_file, cancelled, cleanup_worker, preview_stats, window >>

(***************************************************************************)
(* Move Transaction Engine: process_file and move_file_safe in the pool    *)
(***************************************************************************)
\* the kinds of I/O failure of one move_file_safe call
Faults == {"none", "mkdir", "move"}

\* process_file calls running in the pool
in_flight == {k \in DOMAIN task : task[k].pc \notin {"queued", "done"}}

\* the workers of the run: the pool of a real run, the caller's loop of a dry run
pool_size == IF args.dry_run THEN 1 ELSE args.max_workers

\* self.stats[key] += ... is a read of the counter and a later write of the
\* sum, with no lock: the call has read stats[key] and will write next
stats_load(key) ==
  [pc |-> key, dest |-> None, hash |-> None, size |-> 0,
   load |-> stats[key], in_map |-> FALSE]

\* move_file_safe up to the point where the final destination is fixed:
\* parent mkdir, the exists check and generate_unique_filename;
\* with a fault, the except branch up to its read of stats['errors'].  (made,
\* occupied and unique are bound to their values once.)
move_file_safe_resolve(k, source, destination, fault, now) ==
  \E made \in {mkdir_parents(fs_dirs, path_parent(destination))} :
  \E occupied \in {path_exists(fs_files, made, destination)} :
  \E unique \in {IF occupied
                 THEN generate_unique_filename(fs_files, made, destination,
                                               args.duplicate_handling, now)
                 ELSE [path |-> destination, dirs |-> made]} :
     IF fault = "mkdir"
     THEN /\ fs_dirs' = fs_dirs
          /\ task' = [task EXCEPT ![k] = stats_load("errors")]
     ELSE IF unique.path = None
     THEN /\ fault = "none"
          /\ fs_dirs' = made
          /\ task' = [task EXCEPT ![k] = stats_load("skipped")]
     ELSE IF fault = "move"
     THEN /\ fs_dirs' = unique.dirs
          /\ task' = [task EXCEPT ![k] = stats_load("errors")]
     ELSE /\ fs_dirs' = unique.dirs
          /\ task' = [task EXCEPT ![k] =
                        [pc |-> "resolved", dest |-> unique.path, hash |-> None,
                         size |-> 0, load |-> 0, in_map |-> FALSE]]

\* a worker takes the next file: process_file up to the resolved destination
process_file(k) ==
  /\ pc = "process"
  /\ task[k].pc = "queued"
  /\ \A j \in 1..(k - 1) : task[j].pc # "queued"
  /\ Cardinality(in_flight) < pool_size
  /\ \E file_path \in {all_files[k]} :
       IF file_path \notin DOMAIN fs_files
       THEN \* os.path.getsize raises: the except branch of process_file
            /\ task' = [task EXCEPT ![k] = stats_load("errors")]
            /\ UNCHANGED << fs_dirs, junk_files, faults,
                            calls, duplicate_file, cancelled, cleanup_worker, preview_stats, window >>
       ELSE \E meta \in {fs_files[file_path]} :
            \E dest_path \in {process_file_dest(file_path, meta, args.target,
                                                args.mode, args.junk_threshold)} :
               /\ junk_files' = IF process_file_is_junk(meta, args.junk_threshold)
                                THEN Append(junk_files, file_path)
                                ELSE junk_files
               /\ IF args.dry_run
                  THEN /\ task' = [task EXCEPT ![k] = task_done]
                       /\ UNCHANGED << fs_dirs, faults,
                                       calls, duplicate_file, cancelled, cleanup_worker, preview_stats, window >>
                  ELSE \E fault \in Faults, now \in Clock :
                         /\ fault # "none" => faults < MaxFaults
                         /\ faults' = IF fault # "none" THEN faults + 1 ELSE faults
                         /\ move_file_safe_resolve(k, file_path, dest_path, fault, now)
  /\ UNCHANGED << fs_files, args, pc, all_files, operations_log, duplicate_map,
                  stats, undo_file, reaper, undo, moved_files, fs_initial,
                  interfered,
                  calls, duplicate_file, cancelled, cleanup_worker, preview_stats, window >>

\* move_file_safe: the hash, the size and shutil.move
move_file_safe_move(k) ==
  /\ pc = "process"
  /\ task[k].pc = "resolved"
  /\ LET source      == all_files[k]
         destination == task[k].dest
     IN IF source \notin DOMAIN fs_files
        THEN \* os.path.getsize raises: the except branch
             /\ task' = [task EXCEPT ![k] = stats_load("errors")]
             /\ UNCHANGED << fs_files, moved_files, faults,
                             calls, duplicate_file, cancelled, cleanup_worker, preview_stats, window >>
        ELSE \E readable \in BOOLEAN :
               /\ ~readable => faults < MaxFaults /\ args.duplicate_handling # "SKIP"
               /\ faults' = IF readable THEN faults ELSE faults + 1
               /\ fs_files' = shutil_move(fs_files, source, destination)
               /\ task' = [task EXCEPT ![k] =
                             [pc |-> "moved", dest |-> destination,
                              hash |-> IF args.duplicate_handling # "SKIP" /\ readable
                                       THEN calculate_file_hash(fs_files[source])
                                       ELSE None,
                              size |-> fs_files[source].size,
                              load |-> 0, in_map |-> FALSE]]
               /\ moved_files' = Append(moved_files,
                                        [source |-> source, destination |-> destination])
  /\ UNCHANGED << fs_dirs, args, pc, all_files, junk_files, operations_log,
                  duplicate_map, stats, undo_file, reaper, undo, fs_initial,
                  interfered,
                  calls, duplicate_file, cancelled, cleanup_worker, preview_stats, window >>

\* move_file_safe journalling the destination it was called with instead of
\* the final destination
move_file_safe_log_candidate(k) ==
  /\ pc = "process"
  /\ task[k].pc = "moved"
  /\ operations_log' = Append(operations_log,
                              [source |-> all_files[k],
                               destination |->
                                 process_file_dest(all_files[k], fs_initial[all_files[k]],
                                                   args.target, args.mode,
                                                   args.junk_threshold),
                               operation |-> "move", size_bytes |-> task[k].size,
                               file_hash |-> task[k].hash])
  /\ task' = [task EXCEPT ![k].pc = "moved_count", ![k].load = stats.moved]
  /\ UNCHANGED << fs_files, fs_dirs, args, pc, all_files, junk_files, duplicate_map,
                  stats, undo_file, reaper, undo, moved_files, fs_initial, faults,
                  interfered,
                  calls, duplicate_file, cancelled, cleanup_worker, preview_stats, window >>

\* move_file_safe: the journal entry (and the read of stats['moved'])
move_file_safe_log(k) ==
  /\ pc = "process"
  /\ task[k].pc = "moved"
  /\ operations_log' = Append(operations_log,
                              [source |-> all_files[k], destination |-> task[k].dest,
                               operation |-> "move", size_bytes |-> task[k].size,
                               file_hash |-> task[k].hash])
  /\ task' = [task EXCEPT ![k].pc = "moved_count", ![k].load = stats.moved]
  /\ UNCHANGED << fs_files, fs_dirs, args, pc, all_files, junk_files, duplicate_map,
                  stats, undo_file, reaper, undo, moved_files, fs_initial, faults,
                  interfered,
                  calls, duplicate_file, cancelled, cleanup_worker, preview_stats, window >>

\* the next write of a call to self.stats or self.duplicate_map, together
\* with the read that follows it in the code
move_file_safe_stats(k) ==
  /\ pc = "process"
  /\ LET t == task[k]
     IN CASE t.pc \in {"errors", "skipped"} ->
               \* stats['errors'] += 1, stats['skipped'] += 1: the write
               /\ stats' = [stats EXCEPT ![t.pc] = t.load + 1]
               /\ task' = [task EXCEPT ![k] = task_done]
               /\ duplicate_map' = duplicate_map
          [] t.pc = "moved_count" ->
               \* stats['moved'] += 1: the write; stats['total_size']: the read
               /\ stats' = [stats EXCEPT !.moved = t.load + 1]
               /\ task' = [task EXCEPT ![k].pc = "total_size",
                                       ![k].load = stats.total_size]
               /\ duplicate_map' = duplicate_map
          [] t.pc = "total_size" ->
               \* stats['total_size'] += file_size: the write;
               \* if file_hash: file_hash not in self.duplicate_map
               /\ stats' = [stats EXCEPT !.total_size = t.load + t.size]
               /\ task' = IF t.hash = None
                          THEN [task EXCEPT ![k] = task_done]
                          ELSE [task EXCEPT ![k].pc = "duplicate_map",
                                            ![k].in_map = (t.hash \in DOMAIN duplicate_map)]
               /\ duplicate_map' = duplicate_map
          [] t.pc = "duplicate_map" ->
               \* self.duplicate_map[file_hash] = [] if the hash was not seen,
               \* append(destination), the length test and the read of
               \* stats['duplicates']
               \E listed \in {IF t.in_map THEN duplicate_map[t.hash] ELSE <<>>} :
                  /\ duplicate_map' =
                       [h \in DOMAIN duplicate_map \cup {t.hash} |->
                          IF h = t.hash THEN Append(listed, t.dest) ELSE duplicate_map[h]]
                  /\ task' = IF Len(listed) + 1 > 1
                             THEN [task EXCEPT ![k].pc = "duplicates",
                                               ![k].load = stats.duplicates]
                             ELSE [task EXCEPT ![k] = task_done]
                  /\ stats' = stats
          [] t.pc = "duplicates" ->
               \* stats['duplicates'] += 1: the write
               /\ stats' = [stats EXCEPT !.duplicates = t.load + 1]
               /\ task' = [task EXCEPT ![k] = task_done]
               /\ duplicate_map' = duplicate_map
          [] OTHER -> FALSE
  /\ UNCHANGED << fs_files, fs_dirs, args, pc, all_files, junk_files, operations_log,
                  undo_file, reaper, undo, moved_files, fs_initial, faults,
                  interfered,
                  calls, duplicate_file, cancelled, cleanup_worker, preview_stats, window >>

(***************************************************************************)
(* organize_files: the junk prompt                                         *)
(***************************************************************************)
\* os.remove of every junk file that is still at its path
remove_junk_files(files, junk) ==
  [q \in DOMAIN files \ {junk[i] : i \in DOMAIN junk} |-> files[q]]

\* the junk prompt asked in a dry run as well
delete_junk_files_in_preview ==
  /\ pc = "process"
  /\ \A k \in DOMAIN task : task[k].pc = "done"
  /\ IF junk_files # <<>>
     THEN \E answer \in BOOLEAN :
            fs_files' = IF answer THEN remove_junk_files(fs_files, junk_files)
                        ELSE fs_files
     ELSE fs_files' = fs_files
  /\ pc' = "cleanup"
  /\ UNCHANGED << fs_dirs, args, all_files, task, junk_files, operations_log,
                  duplicate_map, stats, undo_file, reaper, undo, moved_files,
                  fs_initial, faults, interfered,
                  calls, duplicate_file, cancelled, cleanup_worker, preview_stats, window >>

\* the junk prompt of a real run, after the pool
delete_junk_files ==
  /\ pc = "process"
  /\ \A k \in DOMAIN task : task[k].pc = "done"
  /\ IF junk_files # <<>> /\ ~args.dry_run
     THEN \E answer \in BOOLEAN :
            fs_files' = IF answer THEN remove_junk_files(fs_files, junk_files)
                        ELSE fs_files
     ELSE fs_files' = fs_files
  /\ pc' = "cleanup"
  /\ UNCHANGED << fs_dirs, args, all_files, task, junk_files, operations_log,
                  duplicate_map, stats, undo_file, reaper, undo, moved_files,
                  fs_initial, faults, interfered,
                  calls, duplicate_file, cancelled, cleanup_worker, preview_stats, window >>

(***************************************************************************)
(* Empty-Directory Reaper                                                  *)
(***************************************************************************)
MAX_ITERATIONS == 10

\* entry.name.startswith('.') or entry.name.startswith('~')
is_hidden(name) == str_startswith(name, <<".">>) \/ str_startswith(name, <<"~">>)

\* the bottom-up walk adds current_dir to empty_dirs: not protected, no file
\* that is not hidden, no sub-directory outside empty_dirs
RECURSIVE has_no_real_content(_, _, _)
has_no_real_content(files, dirs, current_dir) ==
  /\ ~is_protected_path(current_dir)
  /\ \A f \in scandir_files(files, current_dir) : is_hidden(path_basename(f))
  /\ \A s \in scandir_dirs(dirs, current_dir) : has_no_real_content(files, dirs, s)

scan_for_empty_directories(files, dirs, root_paths) ==
  {d \in dirs :
     /\ \E i \in 1..Len(root_paths) : d \in os_walk(dirs, root_paths[i])
     /\ has_no_real_content(files, dirs, d)}

\* the next element of empty_dirs_sorted: a candidate with the most os.sep
\* (sorted by x.count(os.sep), reverse=True; ties in the order of the set)
empty_dirs_sorted_next(todo) ==
  {d \in todo : \A e \in todo : path_count_sep(e) <= path_count_sep(d)}

\* the entry of remove_empty_directories_recursive(sources) from caller
reaper_call(caller) ==
  [caller |-> caller, iteration |-> 0, total_removed |-> 0, removed_this_pass |-> 0,
   empty_dirs |-> {}, todo |-> {}, returned |-> reaper.returned]

\* the two prompts before the save: cleanup runs only on "yes" in a real run
cleanup_prompt ==
  /\ pc = "cleanup"
  /\ \E answer \in BOOLEAN :
       IF ~args.dry_run /\ answer
       THEN pc' = "reap" /\ reaper' = reaper_call("organize_files")
       ELSE pc' = "save" /\ reaper' = reaper
  /\ UNCHANGED << fs_files, fs_dirs, args, all_files, task, junk_files,
                  operations_log, duplicate_map, stats, undo_file, undo,
                  moved_files, fs_initial, faults, interfered,
                  calls, duplicate_file, cancelled, cleanup_worker, preview_stats, window >>

\* the head of the while loop of remove_empty_directories_recursive: the
\* break after a pass that removed nothing, the loop condition, the scan of
\* the next pass and its break on no candidate; after the loop, the stats
\* and the return to the caller
remove_empty_directories_recursive ==
  /\ pc = "reap"
  /\ reaper.todo = {}
  /\ IF (reaper.iteration > 0 /\ reaper.removed_this_pass = 0)
        \/ ~(reaper.iteration < MAX_ITERATIONS)
     THEN /\ stats' = [stats EXCEPT !.empty_folders_removed = reaper.total_removed]
          /\ reaper' = [reaper EXCEPT !.returned = Append(@, reaper.total_removed)]
          /\ pc' = IF reaper.caller = "organize_files" THEN "save" ELSE "idle"
     ELSE \E empty_dirs \in {scan_for_empty_directories(fs_files, fs_dirs, args.sources)} :
            IF empty_dirs = {}
            THEN /\ stats' = [stats EXCEPT !.empty_folders_removed = reaper.total_removed]
                 /\ reaper' = [reaper EXCEPT !.iteration = @ + 1, !.empty_dirs = {},
                                             !.returned = Append(@, reaper.total_removed)]
                 /\ pc' = IF reaper.caller = "organize_files" THEN "save" ELSE "idle"
            ELSE /\ stats' = stats
                 /\ reaper' = [reaper EXCEPT !.iteration = @ + 1,
                                             !.empty_dirs = empty_dirs,
                                             !.todo = empty_dirs,
                                             !.removed_this_pass = 0]
                 /\ pc' = "reap"
  /\ UNCHANGED << fs_files, fs_dirs, args, all_files, task, junk_files,
                  operations_log, duplicate_map, undo_file, undo, moved_files,
                  fs_initial, faults, interfered,
                  calls, duplicate_file, cancelled, cleanup_worker, preview_stats, window >>

\* one iteration of the for loop over empty_dirs_sorted with rmtree in place
\* of the check of dir_contents and os.rmdir
remove_empty_directory_rmtree ==
  /\ pc = "reap"
  /\ reaper.todo # {}
  /\ \E empty_dir \in empty_dirs_sorted_next(reaper.todo) :
       IF empty_dir \in fs_dirs
       THEN /\ fs_dirs' = {d \in fs_dirs : ~path_under(d, empty_dir)}
            /\ fs_files' = [p \in {q \in DOMAIN fs_files : ~path_under(q, empty_dir)}
                              |-> fs_files[p]]
            /\ reaper' = [reaper EXCEPT !.todo = @ \ {empty_dir},
                                        !.removed_this_pass = @ + 1,
                                        !.total_removed = @ + 1]
       ELSE /\ UNCHANGED << fs_dirs, fs_files,
                            calls, duplicate_file, cancelled, cleanup_worker, preview_stats, window >>
            /\ reaper' = [reaper EXCEPT !.todo = @ \ {empty_dir}]
  /\ UNCHANGED << args, pc, all_files, task, junk_files, operations_log,
                  duplicate_map, stats, undo_file, undo, moved_files, fs_initial,
                  faults, interfered,
                  calls, duplicate_file, cancelled, cleanup_worker, preview_stats, window >>

\* one iteration of the for loop with the list sorted shallowest first
remove_empty_directory_ascending ==
  /\ pc = "reap"
  /\ reaper.todo # {}
  /\ \E empty_dir \in {d \in reaper.todo :
                         \A e \in reaper.todo : path_count_sep(d) <= path_count_sep(e)} :
       IF /\ empty_dir \in fs_dirs
          /\ scandir_files(fs_files, empty_dir) = {}
          /\ scandir_dirs(fs_dirs, empty_dir) = {}
       THEN /\ fs_dirs' = fs_dirs \ {empty_dir}
            /\ reaper' = [reaper EXCEPT !.todo = @ \ {empty_dir},
                                        !.removed_this_pass = @ + 1,
                                        !.total_removed = @ + 1]
       ELSE /\ fs_dirs' = fs_dirs
            /\ reaper' = [reaper EXCEPT !.todo = @ \ {empty_dir}]
  /\ UNCHANGED << fs_files, args, pc, all_files, task, junk_files, operations_log,
                  duplicate_map, stats, undo_file, undo, moved_files, fs_initial,
                  faults, interfered,
                  calls, duplicate_file, cancelled, cleanup_worker, preview_stats, window >>

\* one iteration of the for loop over empty_dirs_sorted: os.path.exists, the
\* check that os.scandir lists nothing, os.rmdir
remove_empty_directory ==
  /\ pc = "reap"
  /\ reaper.todo # {}
  /\ \E empty_dir \in empty_dirs_sorted_next(reaper.todo) :
       IF /\ empty_dir \in fs_dirs
          /\ scandir_files(fs_files, empty_dir) = {}
          /\ scandir_dirs(fs_dirs, empty_dir) = {}
       THEN /\ fs_dirs' = fs_dirs \ {empty_dir}
            /\ reaper' = [reaper EXCEPT !.todo = @ \ {empty_dir},
                                        !.removed_this_pass = @ + 1,
                                        !.total_removed = @ + 1]
       ELSE /\ fs_dirs' = fs_dirs
            /\ reaper' = [reaper EXCEPT !.todo = @ \ {empty_dir}]
  /\ UNCHANGED << fs_files, args, pc, all_files, task, junk_files, operations_log,
                  duplicate_map, stats, undo_file, undo, moved_files, fs_initial,
                  faults, interfered,
                  calls, duplicate_file, cancelled, cleanup_worker, preview_stats, window >>

\* the "Cleanup empty folders" command of the window: a call of
\* remove_empty_directories_recursive(self.source_folders) after the
\* confirmation
cleanup_empty_folders ==
  /\ pc = "idle"
  /\ Len(reaper.returned) < MaxCleanupCalls
  /\ args.sources # <<>>
  /\ pc' = "reap"
  /\ reaper' = reaper_call("cleanup_empty_folders")
  /\ UNCHANGED << fs_files, fs_dirs, args, all_files, task, junk_files,
                  operations_log, duplicate_map, stats, undo_file, undo,
                  moved_files, fs_initial, faults, interfered,
                  calls, duplicate_file, cancelled, cleanup_worker, preview_stats, window >>

\* another program creates a file in a directory of the source trees while
\* the reaper runs
external_write_reap ==
  /\ pc = "reap"
  /\ interfered < MaxExternalWrites
  /\ \E d \in fs_dirs :
       /\ \E i \in DOMAIN args.sources : path_under(d, args.sources[i])
       /\ LET p == path_join(d, <<"n",".","t","x","t">>)
          IN /\ p \notin DOMAIN fs_files
             /\ fs_files' = (p :> [content |-> "other", size |-> 1,
                                   mtime |-> [year |-> 2024, month |-> 4]]) @@ fs_files
  /\ interfered' = interfered + 1
  /\ UNCHANGED << fs_dirs, args, pc, all_files, task, junk_files, operations_log,
                  duplicate_map, stats, undo_file, reaper, undo, moved_files,
                  fs_initial, faults,
                  calls, duplicate_file, cancelled, cleanup_worker, preview_stats, window >>

(***************************************************************************)
(* The persisted journal                                                   *)
(***************************************************************************)
\* save_duplicate_map: the hashes that list more than one path
duplicates_only(map) ==
  [h \in {k \in DOMAIN map : Len(map[k]) > 1} |-> map[h]]

\* save_operations_log and save_duplicate_map at the end of organize_files
\* (not in a dry run)
save_operations_log ==
  /\ pc = "save"
  /\ undo_file' = IF args.dry_run THEN undo_file
                  ELSE [exists |-> TRUE, operations |-> operations_log]
  /\ duplicate_file' = IF args.dry_run THEN duplicate_file
                        ELSE [exists |-> TRUE, groups |-> duplicates_only(duplicate_map)]
  /\ pc' = "returned"
  /\ UNCHANGED << fs_files, fs_dirs, args, all_files, task, junk_files,
                  operations_log, duplicate_map, stats, reaper, undo, moved_files,
                  fs_initial, faults, interfered,
                  calls, cancelled, cleanup_worker, preview_stats, window >>

\* another program puts a file at the original path of a journalled move
external_write ==
  /\ pc = "returned"
  /\ interfered < MaxExternalWrites
  /\ \E i \in DOMAIN undo_file.operations :
       LET p == undo_file.operations[i].source
       IN /\ ~path_exists(fs_files, fs_dirs, p)
          /\ fs_files' = (p :> [content |-> "other", size |-> 1,
                                mtime |-> [year |-> 2024, month |-> 4]]) @@ fs_files
          /\ fs_dirs' = mkdir_parents(fs_dirs, path_parent(p))
  /\ interfered' = interfered + 1
  /\ UNCHANGED << args, pc, all_files, task, junk_files, operations_log,
                  duplicate_map, stats, undo_file, reaper, undo, moved_files,
                  fs_initial, faults,
                  calls, duplicate_file, cancelled, cleanup_worker, preview_stats, window >>

(***************************************************************************)
(* Undo Engine                                                             *)
(***************************************************************************)
\* undo_last_organization up to the loop: the file, the data, the prompt
undo_last_organization ==
  /\ pc = "returned"
  /\ IF ~undo_file.exists \/ undo_file.operations = <<>>
     THEN pc' = "exit" /\ calls' = [calls EXCEPT !.undo = @ + 1]
     ELSE \E answer \in BOOLEAN :
            /\ pc' = IF answer THEN "undo" ELSE "exit"
            /\ calls' = [calls EXCEPT !.undo = @ + 1,
                                      !.replays = IF answer THEN @ + 1 ELSE @]
  /\ undo' = [i |-> Len(undo_file.operations), undone |-> 0, skipped |-> 0, errors |-> 0]
  /\ UNCHANGED << fs_files, fs_dirs, args, all_files, task, junk_files,
                  operations_log, duplicate_map, stats, undo_file, reaper,
                  moved_files, fs_initial, faults, interfered,
                  duplicate_file, cancelled, cleanup_worker, preview_stats, window >>

\* the body of the undo loop with a moved file that is gone counted as a
\* failure
undo_entry_missing_is_error(op_data, fault) ==
  LET source      == op_data.destination
      destination == op_data.source
  IN IF path_exists(fs_files, fs_dirs, source)
     THEN IF path_exists(fs_files, fs_dirs, destination)
          THEN /\ fault = "none"
               /\ undo' = [undo EXCEPT !.i = @ - 1, !.skipped = @ + 1]
               /\ UNCHANGED << fs_files, fs_dirs >>
          ELSE /\ fault = "none"
               /\ fs_dirs' = mkdir_parents(fs_dirs, path_parent(destination))
               /\ fs_files' = shutil_move(fs_files, source, destination)
               /\ undo' = [undo EXCEPT !.i = @ - 1, !.undone = @ + 1]
     ELSE /\ fault = "none"
          /\ undo' = [undo EXCEPT !.i = @ - 1, !.errors = @ + 1]
          /\ UNCHANGED << fs_files, fs_dirs >>

\* the body of the undo loop for the entry op_data: the two exists checks,
\* os.makedirs and shutil.move; with a fault, the except branch
undo_entry(op_data, fault) ==
  LET source      == op_data.destination
      destination == op_data.source
  IN IF path_exists(fs_files, fs_dirs, source)
     THEN IF path_exists(fs_files, fs_dirs, destination)
          THEN /\ fault = "none"
               /\ undo' = [undo EXCEPT !.i = @ - 1, !.skipped = @ + 1]
               /\ UNCHANGED << fs_files, fs_dirs,
                               calls, duplicate_file, cancelled, cleanup_worker, preview_stats, window >>
          ELSE IF fault = "mkdir"
          THEN /\ undo' = [undo EXCEPT !.i = @ - 1, !.errors = @ + 1]
               /\ UNCHANGED << fs_files, fs_dirs,
                               calls, duplicate_file, cancelled, cleanup_worker, preview_stats, window >>
          ELSE IF fault = "move"
          THEN /\ fs_dirs' = mkdir_parents(fs_dirs, path_parent(destination))
               /\ fs_files' = fs_files
               /\ undo' = [undo EXCEPT !.i = @ - 1, !.errors = @ + 1]
          ELSE /\ fs_dirs' = mkdir_parents(fs_dirs, path_parent(destination))
               /\ fs_files' = shutil_move(fs_files, source, destination)
               /\ undo' = [undo EXCEPT !.i = @ - 1, !.undone = @ + 1]
     ELSE /\ fault = "none"
          /\ undo' = [undo EXCEPT !.i = @ - 1, !.skipped = @ + 1]
          /\ UNCHANGED << fs_files, fs_dirs,
                          calls, duplicate_file, cancelled, cleanup_worker, preview_stats, window >>

\* the undo loop without the check of the original location
undo_operation_clobber ==
  /\ pc = "undo"
  /\ undo.i >= 1
  /\ LET op_data     == undo_file.operations[undo.i]
         source      == op_data.destination
         destination == op_data.source
     IN IF source \in DOMAIN fs_files
        THEN /\ fs_dirs' = mkdir_parents(fs_dirs, path_parent(destination))
             /\ fs_files' = shutil_move(fs_files, source, destination)
             /\ undo' = [undo EXCEPT !.i = @ - 1, !.undone = @ + 1]
        ELSE /\ undo' = [undo EXCEPT !.i = @ - 1, !.skipped = @ + 1]
             /\ UNCHANGED << fs_files, fs_dirs,
                             calls, duplicate_file, cancelled, cleanup_worker, preview_stats, window >>
  /\ UNCHANGED << args, pc, all_files, task, junk_files, operations_log,
                  duplicate_map, stats, undo_file, reaper, moved_files, fs_initial,
                  faults, interfered,
                  calls, duplicate_file, cancelled, cleanup_worker, preview_stats, window >>

\* the undo loop over operations_data in the order of the journal
undo_operation_forward ==
  /\ pc = "undo"
  /\ undo.i >= 1
  /\ \E fault \in Faults :
       /\ fault # "none" => faults < MaxFaults
       /\ faults' = IF fault # "none" THEN faults + 1 ELSE faults
       /\ undo_entry(undo_file.operations[Len(undo_file.operations) - undo.i + 1], fault)
  /\ UNCHANGED << args, pc, all_files, task, junk_files, operations_log,
                  duplicate_map, stats, undo_file, reaper, moved_files, fs_initial,
                  interfered,
                  calls, duplicate_file, cancelled, cleanup_worker, preview_stats, window >>

\* the undo loop with the failure of an entry raised to the caller: the
\* entries before it in the journal are not replayed
undo_operation_abort ==
  /\ pc = "undo"
  /\ undo.i >= 1
  /\ \E fault \in Faults :
       /\ fault # "none" => faults < MaxFaults
       /\ faults' = IF fault # "none" THEN faults + 1 ELSE faults
       /\ \E op_data \in {undo_file.operations[undo.i]} :
            IF /\ path_exists(fs_files, fs_dirs, op_data.destination)
               /\ ~path_exists(fs_files, fs_dirs, op_data.source)
               /\ fault = "none"
            THEN undo_entry(op_data, fault)
            ELSE /\ undo' = [undo EXCEPT !.i = 0, !.errors = @ + 1]
                 /\ UNCHANGED << fs_files, fs_dirs,
                                 calls, duplicate_file, cancelled, cleanup_worker, preview_stats, window >>
  /\ UNCHANGED << args, pc, all_files, task, junk_files, operations_log,
                  duplicate_map, stats, undo_file, reaper, moved_files, fs_initial,
                  interfered,
                  calls, duplicate_file, cancelled, cleanup_worker, preview_stats, window >>

\* one iteration of the loop over reversed(operations_data)
undo_operation ==
  /\ pc = "undo"
  /\ undo.i >= 1
  /\ \E fault \in Faults :
       /\ fault # "none" => faults < MaxFaults
       /\ faults' = IF fault # "none" THEN faults + 1 ELSE faults
       /\ undo_entry(undo_file.operations[undo.i], fault)
  /\ UNCHANGED << args, pc, all_files, task, junk_files, operations_log,
                  duplicate_map, stats, undo_file, reaper, moved_files, fs_initial,
                  interfered,
                  calls, duplicate_file, cancelled, cleanup_worker, preview_stats, window >>

\* after the loop: the summary and the prompt to delete the undo file
undo_summary ==
  /\ pc = "undo"
  /\ undo.i = 0
  /\ \E answer \in BOOLEAN :
       undo_file' = IF answer THEN [exists |-> FALSE, operations |-> <<>>]
                    ELSE undo_file
  /\ pc' = "exit"
  /\ UNCHANGED << fs_files, fs_dirs, args, all_files, task, junk_files,
                  operations_log, duplicate_map, stats, reaper, undo, moved_files,
                  fs_initial, faults, interfered,
                  calls, duplicate_file, cancelled, cleanup_worker, preview_stats, window >>

(***************************************************************************)
(* The program                                                             *)
(***************************************************************************)
Next ==
  \/ organize_files_scan
  \/ \E k \in DOMAIN task : process_file(k)
  \/ \E k \in DOMAIN task : move_file_safe_move(k)
  \/ \E k \in DOMAIN task : move_file_safe_log(k)
  \/ \E k \in DOMAIN task : move_file_safe_stats(k)
  \/ delete_junk_files
  \/ cleanup_prompt
  \/ remove_empty_directories_recursive
  \/ remove_empty_directory
  \/ save_operations_log
  \/ external_write
  \/ undo_last_organization
  \/ undo_operation
  \/ undo_summary

Spec == Init /\ [][Next]_vars

\* the move pipeline of a run alone
NextRename ==
  \/ organize_files_scan
  \/ \E k \in DOMAIN task : process_file(k)
  \/ \E k \in DOMAIN task : move_file_safe_move(k)
  \/ \E k \in DOMAIN task : move_file_safe_log(k)
  \/ \E k \in DOMAIN task : move_file_safe_stats(k)

SpecRename == InitRename /\ [][NextRename]_vars

(***************************************************************************)
(* Preview: preview_organization before the run                            *)
(***************************************************************************)
\* analyze_file that reports the type of the file whatever the mode
analyze_file_by_type_only(file_path, meta, threshold, mode) ==
  IF meta.size < threshold * BytesPerKB
  THEN <<"J","u","n","k">>
  ELSE get_file_category(file_path)[1] \o <<"/">> \o get_file_category(file_path)[2]

\* analyze_file: result['category'] of one file, a text with "/" in it
analyze_file(file_path, meta, threshold, mode) ==
  IF meta.size < threshold * BytesPerKB
  THEN <<"J","u","n","k">>
  ELSE IF mode = "BY_TYPE"
  THEN LET c == get_file_category(file_path)
       IN c[1] \o <<"/">> \o c[2]
  ELSE IF mode = "BY_DATE"
  THEN <<"B","y"," ","D","a","t","e","/">> \o str_int(meta.mtime.year) \o <<"/">>
         \o str_int_02d(meta.mtime.month) \o <<"-">> \o month_name[meta.mtime.month]
  ELSE IF mode = "BY_SIZE"
  THEN IF meta.size < 1 * BytesPerMB
       THEN <<"B","y"," ","S","i","z","e","/","S","m","a","l","l"," ","(","<"," ","1","M","B",")">>
       ELSE IF meta.size < 10 * BytesPerMB
       THEN <<"B","y"," ","S","i","z","e","/","M","e","d","i","u","m"," ","(","1","-","1","0","M","B",")">>
       ELSE IF meta.size < 100 * BytesPerMB
       THEN <<"B","y"," ","S","i","z","e","/","L","a","r","g","e"," ","(","1","0","-","1","0","0","M","B",")">>
       ELSE <<"B","y"," ","S","i","z","e","/","V","e","r","y"," ","L","a","r","g","e"," ","(",">"," ","1","0","0","M","B",")">>
  ELSE LET ext == IF str_lower(path_suffix(file_path)) # <<>>
                  THEN str_lower(path_suffix(file_path))
                  ELSE <<"n","o","_","e","x","t","e","n","s","i","o","n">>
       IN <<"B","y"," ","E","x","t","e","n","s","i","o","n","/">>
            \o (IF ext # <<"n","o","_","e","x","t","e","n","s","i","o","n">>
                THEN str_upper(str_remove(ext, "."))
                ELSE <<"N","O","_","E","X","T","E","N","S","I","O","N">>)

\* confirm_operation: preview_organization scans the sources as the run
\* does and analyses every file found; the user then confirms
preview_organization ==
  /\ pc = "confirm_operation"
  /\ preview_stats' = [p \in scan_files(fs_files, fs_dirs, args.sources) |->
                         analyze_file(p, fs_files[p], args.junk_threshold, args.mode)]
  /\ pc' = "organize_files"
  /\ UNCHANGED << fs_files, fs_dirs, args, all_files, task, junk_files, operations_log,
                  duplicate_map, stats, undo_file, reaper, undo, moved_files, fs_initial,
                  faults, interfered, calls, duplicate_file, cancelled, cleanup_worker,
                  window >>

\* the files the preview is tried on: an executable, an image, a name
\* without suffix, a suffix FILE_MAP does not know
FileP1 == path_join(SourceRoot, <<"y",".","J","P","G">>)

FileP2 == path_join(SourceRoot, <<"R","E","A","D","M","E">>)

FileP3 == path_join(SourceRoot, <<"d",".","z","z","z">>)

PreviewFiles == {File1, FileP1, FileP2, FileP3}

\* sizes in bytes on both sides of the junk threshold and of the BY_SIZE steps
PreviewSizes ==
  {2048, 10239, 10240, BytesPerMB - 1, BytesPerMB, 10 * BytesPerMB, 100 * BytesPerMB}

PreviewMonths == {3, 12}

\* the state at confirm_operation, before the run
InitPreview ==
  \E mode \in OrganizationMode, duplicate_handling \in DuplicateHandling,
     junk_threshold \in JunkThresholds, file_path \in PreviewFiles,
     size \in PreviewSizes, month \in PreviewMonths :
    \E files \in {(file_path :> [content |-> "c1", size |-> size,
                                 mtime |-> [year |-> 2024, month |-> month]])
                    @@ (File2 :> FileMeta[File2])} :
      /\ fs_files = files
      /\ fs_dirs = {SourceRoot, SourceSub, TargetRoot}
      /\ args = [sources |-> <<SourceRoot>>, target |-> TargetRoot,
                 junk_threshold |-> junk_threshold, mode |-> mode,
                 duplicate_handling |-> duplicate_handling, dry_run |-> FALSE,
                 max_workers |-> 1]
      /\ pc = "confirm_operation"
      /\ all_files = <<>>
      /\ task = <<>>
      /\ junk_files = <<>>
      /\ operations_log = <<>>
      /\ duplicate_map = <<>>
      /\ stats = stats_init
      /\ undo_file = [exists |-> FALSE, operations |-> <<>>]
      /\ reaper = reaper_init
      /\ undo = [i |-> 0, undone |-> 0, skipped |-> 0, errors |-> 0]
      /\ moved_files = <<>>
      /\ fs_initial = files
      /\ faults = 0
      /\ interfered = 0
      /\ calls = calls_init
      /\ duplicate_file = [exists |-> FALSE, groups |-> <<>>]
      /\ cancelled = FALSE
      /\ cleanup_worker = cleanup_worker_init
      /\ preview_stats = <<>>
      /\ window = window_init

\* the preview, then the run up to its moves
NextPreview ==
  \/ preview_organization
  \/ organize_files_scan
  \/ \E k \in DOMAIN task : process_file(k)
  \/ \E k \in DOMAIN task : move_file_safe_move(k)
  \/ \E k \in DOMAIN task : move_file_safe_log(k)
  \/ \E k \in DOMAIN task : move_file_safe_stats(k)

SpecPreview == InitPreview /\ [][NextPreview]_vars

(***************************************************************************)
(* FileOrganizerImproved: the organizer of the improved window             *)
(***************************************************************************)
\* the entries Config.SYSTEM_PROTECTED of the improved organizer adds
SYSTEM_PROTECTED_IMPROVED ==
  << <<"P","r","o","g","r","a","m"," ","F","i","l","e","s"," ","(","x","8","6",")">>,
     <<"s","w","a","p","f","i","l","e",".","s","y","s">>,
     <<"W","i","n","d","o","w","s",".","o","l","d">>,
     <<"I","n","t","e","l">>, <<"A","M","D">>, <<"N","V","I","D","I","A">> >>

\* FileOrganizerImproved.is_protected_path: the same tests on the longer list
is_protected_path_improved(path) ==
  \/ is_protected_path(path)
  \/ \E k \in 1..Len(SYSTEM_PROTECTED_IMPROVED) :
       str_contains(str_lower(SYSTEM_PROTECTED_IMPROVED[k]), str_lower(path_str(path)))

\* enhanced_file_scan of one source: the files of the walk outside protected
\* directories
enhanced_file_scan(files, dirs, source) ==
  {p \in DOMAIN files :
     /\ path_parent(p) \in os_walk(dirs, source)
     /\ ~is_protected_path_improved(path_parent(p))}

\* the lists enhanced_file_scan can return: the walks of the sources one
\* after the other (RECURSIVE on the number of sources)
RECURSIVE enhanced_file_scan_orders(_, _, _)
enhanced_file_scan_orders(files, dirs, sources) ==
  IF sources = <<>> THEN {<<>>}
  ELSE LET found == enhanced_file_scan(files, dirs, sources[1])
           tails == enhanced_file_scan_orders(files, dirs, Tail(sources))
       IN {head \o tail : head \in walk_orders(found), tail \in tails}

\* get_destination_path: no junk test; BY_DATE reads os.path.getctime (the
\* files of the model were created in the month they were last written) and
\* BY_SIZE os.path.getsize, both with a bucket of their own when the call fails
get_destination_path(files, file_path, target, mode) ==
  LET name == path_basename(file_path)
  IN IF mode = "BY_TYPE"
     THEN LET c == get_file_category(file_path)
          IN path_join(path_join(path_join(target, c[1]), c[2]), name)
     ELSE IF mode = "BY_DATE"
     THEN IF file_path \in DOMAIN files
          THEN path_join(path_join(path_join(target, str_int(files[file_path].mtime.year)),
                                   str_int_02d(files[file_path].mtime.month) \o <<"-">>
                                     \o month_name[files[file_path].mtime.month]),
                         name)
          ELSE path_join(path_join(target, <<"U","n","k","n","o","w","n","_","D","a","t","e">>), name)
     ELSE IF mode = "BY_SIZE"
     THEN IF file_path \in DOMAIN files
          THEN path_join(path_join(target,
                 IF files[file_path].size < BytesPerMB THEN <<"S","m","a","l","l">>
                 ELSE IF files[file_path].size < 100 * BytesPerMB THEN <<"M","e","d","i","u","m">>
                 ELSE IF files[file_path].size < 1024 * BytesPerMB THEN <<"L","a","r","g","e">>
                 ELSE <<"V","e","r","y","_","L","a","r","g","e">>), name)
          ELSE path_join(path_join(target, <<"U","n","k","n","o","w","n","_","S","i","z","e">>), name)
     ELSE LET ext == IF str_lower(path_suffix(file_path)) # <<>>
                     THEN str_lower(path_suffix(file_path))
                     ELSE <<"n","o","_","e","x","t","e","n","s","i","o","n">>
          IN path_join(path_join(target, IF str_startswith(ext, <<".">>) THEN Tail(ext) ELSE ext),
                       name)

\* f"{base}_({counter}){ext}" of os.path.splitext(destination)
conflict_candidate(destination, counter) ==
  path_join(path_parent(destination),
            path_stem(destination) \o <<"_", "(">> \o str_int(counter) \o <<")">>
              \o path_suffix(destination))

\* resolve_file_conflict: the first candidate that does not exist, whatever
\* the duplicate handling (called when destination exists)
resolve_file_conflict(files, dirs, destination) ==
  conflict_candidate(destination,
    CHOOSE counter \in 1..(Cardinality(DOMAIN files) + Cardinality(dirs) + 1) :
      /\ ~path_exists(files, dirs, conflict_candidate(destination, counter))
      /\ \A n \in 1..(counter - 1) :
           path_exists(files, dirs, conflict_candidate(destination, n)))

\* organize_files of the worker thread up to process_files_batch: the new
\* self.stats, create_backup (which does nothing), the scan, and the return
\* when no file is found
organize_files_improved ==
  /\ pc = "organize_worker"
  /\ stats' = [moved |-> 0, skipped |-> 0, errors |-> 0, duplicates |-> 0, total_size |-> 0]
  /\ \E order \in enhanced_file_scan_orders(fs_files, fs_dirs, args.sources) :
       /\ all_files' = order
       /\ task' = [k \in 1..Len(order) |-> task_queued]
       /\ pc' = IF order = <<>> THEN "complete" ELSE "batch"
  /\ calls' = [calls EXCEPT !.organize_files = @ + 1,
                            !.log_start = Len(operations_log)]
  /\ fs_initial' = fs_files
  /\ moved_files' = <<>>
  /\ UNCHANGED << fs_files, fs_dirs, args, junk_files, operations_log, duplicate_map,
                  undo_file, reaper, undo, faults, interfered, duplicate_file,
                  cancelled, cleanup_worker, preview_stats, window >>

\* the call of remove_empty_directories_recursive(sources) by organize_files
reaper_call_improved ==
  [caller |-> "organize_files", iteration |-> 0, total_removed |-> 0,
   removed_this_pass |-> 0, empty_dirs |-> {}, todo |-> {}, returned |-> reaper.returned]

\* the head of the for loop of process_files_batch: the poll of
\* self.cancelled, then the next file; after the loop organize_files goes on
\* to the reaper in a real run and to its report in a preview run
process_files_batch ==
  /\ pc = "batch"
  /\ \A k \in DOMAIN task : task[k].pc \in {"queued", "done"}
  /\ IF cancelled \/ \A k \in DOMAIN task : task[k].pc = "done"
     THEN /\ pc' = IF args.dry_run THEN "complete" ELSE "reap_improved"
          /\ reaper' = IF args.dry_run THEN reaper ELSE reaper_call_improved
          /\ task' = task
     ELSE /\ \E k \in {CHOOSE k \in DOMAIN task :
                         /\ task[k].pc = "queued"
                         /\ \A j \in 1..(k - 1) : task[j].pc = "done"} :
               task' = [task EXCEPT ![k].pc = "begun"]
          /\ UNCHANGED << pc, reaper >>
  /\ UNCHANGED << fs_files, fs_dirs, args, all_files, junk_files, operations_log,
                  duplicate_map, stats, undo_file, undo, moved_files, fs_initial,
                  faults, interfered, calls, duplicate_file, cancelled, cleanup_worker,
                  preview_stats, window >>

\* the body of the loop up to the fixed destination: is_protected_path (whose
\* count raises KeyError on the new self.stats: the except branch),
\* get_destination_path, and in a real run move_file_safely up to its
\* shutil.move (makedirs, the exists test, resolve_file_conflict); a preview
\* run counts the file as moved and adds its size
process_files_batch_file(k) ==
  /\ pc = "batch"
  /\ task[k].pc = "begun"
  /\ \E file_path \in {all_files[k]} :
     \E dest_path \in {get_destination_path(fs_files, file_path, args.target, args.mode)} :
     \E made \in {mkdir_parents(fs_dirs, path_parent(dest_path))} :
       IF is_protected_path_improved(file_path)
       THEN /\ stats' = [stats EXCEPT !.errors = @ + 1]
            /\ task' = [task EXCEPT ![k] = task_done]
            /\ fs_dirs' = fs_dirs
       ELSE IF args.dry_run
       THEN /\ stats' = [stats EXCEPT !.moved = @ + 1,
                                      !.total_size = IF file_path \in DOMAIN fs_files
                                                     THEN @ + fs_files[file_path].size
                                                     ELSE @]
            /\ task' = [task EXCEPT ![k] = task_done]
            /\ fs_dirs' = fs_dirs
       ELSE /\ stats' = stats
            /\ fs_dirs' = made
            /\ task' = [task EXCEPT ![k].pc = "resolved",
                                    ![k].dest = IF path_exists(fs_files, made, dest_path)
                                                THEN resolve_file_conflict(fs_files, made, dest_path)
                                                ELSE dest_path]
  /\ UNCHANGED << fs_files, args, pc, all_files, junk_files, operations_log,
                  duplicate_map, undo_file, reaper, undo, moved_files, fs_initial,
                  faults, interfered, calls, duplicate_file, cancelled, cleanup_worker,
                  preview_stats, window >>

\* shutil.move(source, destination) of move_file_safely; when the source is
\* gone it raises and the except branch of the loop counts an error
move_file_safely_move(k) ==
  /\ pc = "batch"
  /\ task[k].pc = "resolved"
  /\ IF all_files[k] \in DOMAIN fs_files
     THEN /\ fs_files' = shutil_move(fs_files, all_files[k], task[k].dest)
          /\ moved_files' = Append(moved_files,
                                   [source |-> all_files[k], destination |-> task[k].dest])
          /\ task' = [task EXCEPT ![k].pc = "moved"]
          /\ stats' = stats
     ELSE /\ UNCHANGED << fs_files, moved_files >>
          /\ task' = [task EXCEPT ![k] = task_done]
          /\ stats' = [stats EXCEPT !.errors = @ + 1]
  /\ UNCHANGED << fs_dirs, args, pc, all_files, junk_files, operations_log,
                  duplicate_map, undo_file, reaper, undo, fs_initial, faults,
                  interfered, calls, duplicate_file, cancelled, cleanup_worker,
                  preview_stats, window >>

\* move_file_safely dropping the file it has moved when the operation was
\* cancelled in the meantime
move_file_safely_log_unless_cancelled(k) ==
  /\ pc = "batch"
  /\ task[k].pc = "moved"
  /\ operations_log' = IF cancelled THEN operations_log
                       ELSE Append(operations_log,
                                   [source |-> all_files[k], destination |-> task[k].dest,
                                    operation |-> "move",
                                    size_bytes |-> fs_files[task[k].dest].size])
  /\ stats' = [stats EXCEPT !.moved = @ + 1]
  /\ task' = [task EXCEPT ![k] = task_done]
  /\ UNCHANGED << fs_files, fs_dirs, args, pc, all_files, junk_files, duplicate_map,
                  undo_file, reaper, undo, moved_files, fs_initial, faults, interfered,
                  calls, duplicate_file, cancelled, cleanup_worker, preview_stats, window >>

\* the rest of move_file_safely and of the loop body: the FileOperation with
\* os.path.getsize(destination) appended to the journal, stats['moved'], and
\* os.path.getsize(file_path), which raises on the moved source and is passed
move_file_safely_log(k) ==
  /\ pc = "batch"
  /\ task[k].pc = "moved"
  /\ operations_log' = Append(operations_log,
                              [source |-> all_files[k], destination |-> task[k].dest,
                               operation |-> "move",
                               size_bytes |-> fs_files[task[k].dest].size])
  /\ stats' = [stats EXCEPT !.moved = @ + 1]
  /\ task' = [task EXCEPT ![k] = task_done]
  /\ UNCHANGED << fs_files, fs_dirs, args, pc, all_files, junk_files, duplicate_map,
                  undo_file, reaper, undo, moved_files, fs_initial, faults, interfered,
                  calls, duplicate_file, cancelled, cleanup_worker, preview_stats, window >>

\* the bottom-up walk of the improved organizer: not protected, no file that
\* is not hidden, no sub-directory outside empty_dirs
RECURSIVE has_no_real_content_improved(_, _, _)
has_no_real_content_improved(files, dirs, current_dir) ==
  /\ \A f \in scandir_files(files, current_dir) : is_hidden(path_basename(f))
  /\ \A s \in scandir_dirs(dirs, current_dir) : has_no_real_content_improved(files, dirs, s)
  /\ ~is_protected_path_improved(current_dir)

\* scan_for_empty_directories of the improved organizer: in the walk of each
\* root_path, current_dir is added unless it is that root_path
scan_for_empty_directories_improved(files, dirs, root_paths) ==
  {d \in dirs :
     /\ \E i \in 1..Len(root_paths) :
          d \in os_walk(dirs, root_paths[i]) /\ d # root_paths[i]
     /\ has_no_real_content_improved(files, dirs, d)}

\* the threads that can run remove_empty_directories_recursive of the one
\* organizer: the organize worker and the cleanup worker of the window
ReaperThreads == {"organize_worker", "cleanup_worker"}

\* the locals of the call a thread is in, and whether it is in one
reaper_locals(thread) == IF thread = "organize_worker" THEN reaper ELSE cleanup_worker

reaper_running(thread) ==
  IF thread = "organize_worker" THEN pc = "reap_improved" ELSE cleanup_worker.pc = "reap"

\* the head of the while loop: the break after a pass that removed nothing,
\* the loop condition, the scan and its break on no candidate; after the loop
\* stats['empty_folders_removed'], the return, and the worker's message to
\* the window
remove_empty_directories_recursive_improved(thread) ==
  /\ reaper_running(thread)
  /\ reaper_locals(thread).todo = {}
  /\ \E r \in {reaper_locals(thread)} :
     \E ended \in {(r.iteration > 0 /\ r.removed_this_pass = 0)
                     \/ ~(r.iteration < MAX_ITERATIONS)} :
     \E empty_dirs \in {IF ended THEN {}
                        ELSE scan_for_empty_directories_improved(fs_files, fs_dirs,
                                                                 args.sources)} :
     \E next \in {IF empty_dirs = {}
                  THEN [r EXCEPT !.iteration = IF ended THEN @ ELSE @ + 1,
                                 !.returned = Append(@, r.total_removed)]
                  ELSE [r EXCEPT !.iteration = @ + 1, !.todo = empty_dirs,
                                 !.removed_this_pass = 0]} :
       /\ stats' = IF empty_dirs = {}
                   THEN ("empty_folders_removed" :> r.total_removed) @@ stats
                   ELSE stats
       /\ IF thread = "organize_worker"
          THEN /\ reaper' = next
               /\ pc' = IF empty_dirs = {} THEN "complete" ELSE pc
               /\ cleanup_worker' = cleanup_worker
          ELSE /\ cleanup_worker' = [next EXCEPT !.pc = IF empty_dirs = {} THEN "complete"
                                                        ELSE "reap"]
               /\ UNCHANGED << reaper, pc >>
  /\ UNCHANGED << fs_files, fs_dirs, args, all_files, task, junk_files, operations_log,
                  duplicate_map, undo_file, undo, moved_files, fs_initial, faults,
                  interfered, calls, duplicate_file, cancelled, preview_stats, window >>

\* one iteration of the for loop over empty_dirs_sorted: the break when
\* self.cancelled is set, else the exists and isdir tests, the scandir and the
\* rmdir of a directory with no entry
remove_empty_directory_improved(thread) ==
  /\ reaper_running(thread)
  /\ \E r \in {reaper_locals(thread)} :
       /\ r.todo # {}
       /\ \E empty_dir \in empty_dirs_sorted_next(r.todo) :
          \E removes \in {/\ ~cancelled
                          /\ empty_dir \in fs_dirs
                          /\ scandir_files(fs_files, empty_dir) = {}
                          /\ scandir_dirs(fs_dirs, empty_dir) = {}} :
          \E next \in {IF cancelled THEN [r EXCEPT !.todo = {}]
                       ELSE IF removes
                       THEN [r EXCEPT !.todo = @ \ {empty_dir},
                                      !.removed_this_pass = @ + 1,
                                      !.total_removed = @ + 1]
                       ELSE [r EXCEPT !.todo = @ \ {empty_dir}]} :
            /\ fs_dirs' = IF removes THEN fs_dirs \ {empty_dir} ELSE fs_dirs
            /\ IF thread = "organize_worker"
               THEN reaper' = next /\ cleanup_worker' = cleanup_worker
               ELSE cleanup_worker' = next /\ reaper' = reaper
  /\ UNCHANGED << fs_files, args, pc, all_files, task, junk_files, operations_log,
                  duplicate_map, stats, undo_file, undo, moved_files, fs_initial,
                  faults, interfered, calls, duplicate_file, cancelled, preview_stats,
                  window >>

(***************************************************************************)
(* EnhancedFileOrganizerGUI: the window on one FileOrganizerImproved       *)
(***************************************************************************)
\* validate_inputs: source folders, a target that is none of them and exists
validate_inputs ==
  /\ args.sources # <<>>
  /\ \A i \in 1..Len(args.sources) : args.sources[i] # args.target
  /\ args.target \in fs_dirs

\* Start Organization, confirmed: the progress dialog (which grabs the input
\* of the window), start_processing and the organize worker thread on
\* self.organizer; the button is taken while no organize worker runs
start_organization ==
  /\ pc = "idle"
  /\ ~window.progress_dialog
  /\ calls.organize_files < MaxRuns
  /\ validate_inputs
  /\ window' = [is_processing |-> TRUE, progress_dialog |-> TRUE]
  /\ pc' = "organize_worker"
  /\ calls' = [calls EXCEPT !.cancel_start = calls.cancel_operation]
  /\ UNCHANGED << fs_files, fs_dirs, args, all_files, task, junk_files, operations_log,
                  duplicate_map, stats, undo_file, reaper, undo, moved_files, fs_initial,
                  faults, interfered, duplicate_file, cancelled, cleanup_worker,
                  preview_stats >>

\* Cancel of the progress dialog, confirmed: EnhancedProgressDialog.cancel
\* closes the dialog and tells the organizer nothing
progress_dialog_cancel ==
  /\ window.progress_dialog
  /\ window' = [window EXCEPT !.progress_dialog = FALSE]
  /\ UNCHANGED << fs_files, fs_dirs, args, pc, all_files, task, junk_files,
                  operations_log, duplicate_map, stats, undo_file, reaper, undo,
                  moved_files, fs_initial, faults, interfered, calls, duplicate_file,
                  cancelled, cleanup_worker, preview_stats >>

\* Escape in the window while it is processing, confirmed:
\* FileOrganizerImproved.cancel_operation and stop_processing
cancel_operation ==
  /\ ~window.progress_dialog
  /\ window.is_processing
  /\ cancelled' = TRUE
  /\ window' = [is_processing |-> FALSE, progress_dialog |-> FALSE]
  /\ calls' = [calls EXCEPT !.cancel_operation = @ + 1]
  /\ UNCHANGED << fs_files, fs_dirs, args, pc, all_files, task, junk_files,
                  operations_log, duplicate_map, stats, undo_file, reaper, undo,
                  moved_files, fs_initial, faults, interfered, duplicate_file,
                  cleanup_worker, preview_stats >>

\* Clean Empty Folders, confirmed: a cleanup worker thread on self.organizer
\* with the source folders; self.is_processing is not looked at
clean_empty_folders ==
  /\ ~window.progress_dialog
  /\ cleanup_worker.pc = "idle"
  /\ Len(cleanup_worker.returned) < MaxCleanupCalls
  /\ args.sources # <<>>
  /\ cleanup_worker' = [cleanup_worker_init EXCEPT !.pc = "reap",
                                                   !.returned = cleanup_worker.returned]
  /\ UNCHANGED << fs_files, fs_dirs, args, pc, all_files, task, junk_files,
                  operations_log, duplicate_map, stats, undo_file, reaper, undo,
                  moved_files, fs_initial, faults, interfered, calls, duplicate_file,
                  cancelled, preview_stats, window >>

\* check_operation_queue with a message waiting: stop_processing for each
\* worker that has put its organize_complete or cleanup_complete
check_operation_queue ==
  /\ pc = "complete" \/ cleanup_worker.pc = "complete"
  /\ pc' = IF pc = "complete" THEN "idle" ELSE pc
  /\ cleanup_worker' = IF cleanup_worker.pc = "complete"
                       THEN [cleanup_worker EXCEPT !.pc = "idle"]
                       ELSE cleanup_worker
  /\ window' = [is_processing |-> FALSE, progress_dialog |-> FALSE]
  /\ UNCHANGED << fs_files, fs_dirs, args, all_files, task, junk_files, operations_log,
                  duplicate_map, stats, undo_file, reaper, undo, moved_files, fs_initial,
                  faults, interfered, calls, duplicate_file, cancelled, preview_stats >>

\* the source folders of the window: /a alone, or /a and its folder /a/sub
SourceFolders == { <<SourceRoot>>, <<SourceRoot, SourceSub>> }

\* the files under the source folders
FileSetsImproved == { {File1, File2}, {File1, File3} }

\* the window after __init__ with its folders and options chosen; earlier: a
\* file of an earlier run lies where File1 is to go
InitImproved ==
  \E mode \in OrganizationMode, duplicate_handling \in {"RENAME", "SKIP"},
     junk_threshold \in {MIN_JUNK_SIZE_KB_DEFAULT}, sources \in SourceFolders,
     present \in FileSetsImproved, earlier \in BOOLEAN, dry_run \in BOOLEAN :
    \E source_files \in {[p \in present |-> FileMeta[p]]} :
    \E left \in {get_destination_path(source_files, File1, TargetRoot, mode)} :
    \E files \in {IF earlier THEN (left :> EarlierMeta) @@ source_files
                  ELSE source_files} :
      /\ fs_files = files
      /\ fs_dirs = IF earlier
                   THEN mkdir_parents({SourceRoot, SourceSub}, path_parent(left))
                   ELSE {SourceRoot, SourceSub, TargetRoot}
      /\ args = [sources |-> sources, target |-> TargetRoot,
                 junk_threshold |-> junk_threshold, mode |-> mode,
                 duplicate_handling |-> duplicate_handling, dry_run |-> dry_run,
                 max_workers |-> 1]
      /\ pc = "idle"
      /\ all_files = <<>>
      /\ task = <<>>
      /\ junk_files = <<>>
      /\ operations_log = <<>>
      /\ duplicate_map = <<>>
      /\ stats = stats_init
      /\ undo_file = [exists |-> FALSE, operations |-> <<>>]
      /\ reaper = reaper_init
      /\ undo = [i |-> 0, undone |-> 0, skipped |-> 0, errors |-> 0]
      /\ moved_files = <<>>
      /\ fs_initial = files
      /\ faults = 0
      /\ interfered = 0
      /\ calls = calls_init
      /\ duplicate_file = [exists |-> FALSE, groups |-> <<>>]
      /\ cancelled = FALSE
      /\ cleanup_worker = cleanup_worker_init
      /\ preview_stats = <<>>
      /\ window = window_init

\* the window, its two worker threads and the user
NextImproved ==
  \/ start_organization
  \/ organize_files_improved
  \/ process_files_batch
  \/ \E k \in DOMAIN task : process_files_batch_file(k)
  \/ \E k \in DOMAIN task : move_file_safely_move(k)
  \/ \E k \in DOMAIN task : move_file_safely_log(k)
  \/ \E thread \in ReaperThreads : remove_empty_directories_recursive_improved(thread)
  \/ \E thread \in ReaperThreads : remove_empty_directory_improved(thread)
  \/ progress_dialog_cancel
  \/ cancel_operation
  \/ clean_empty_folders
  \/ check_operation_queue

SpecImproved == InitImproved /\ [][NextImproved]_vars

(***************************************************************************)
(* Later calls on the same organizer                                       *)
(***************************************************************************)
\* the window starts another organize_files on its organizer, with the same
\* arguments: the locals are new, self.operations_log, self.duplicate_map and
\* self.stats are those of the instance
organize_files_again ==
  /\ pc = "returned"
  /\ calls.organize_files >= 1
  /\ calls.organize_files < MaxRuns
  /\ pc' = "organize_files"
  /\ all_files' = <<>>
  /\ task' = <<>>
  /\ junk_files' = <<>>
  /\ moved_files' = <<>>
  /\ fs_initial' = fs_files
  /\ UNCHANGED << fs_files, fs_dirs, args, operations_log, duplicate_map, stats,
                  undo_file, reaper, undo, faults, interfered, calls,
                  duplicate_file, cancelled, cleanup_worker, preview_stats, window >>

\* undo_last_organization called again while the undo file is kept
undo_again ==
  /\ pc = "exit"
  /\ undo_file.exists
  /\ calls.undo >= 1
  /\ calls.undo < MaxUndoCalls
  /\ IF undo_file.operations = <<>>
     THEN pc' = "exit" /\ calls' = [calls EXCEPT !.undo = @ + 1]
     ELSE \E answer \in BOOLEAN :
            /\ pc' = IF answer THEN "undo" ELSE "exit"
            /\ calls' = [calls EXCEPT !.undo = @ + 1,
                                      !.replays = IF answer THEN @ + 1 ELSE @]
  /\ undo' = [i |-> Len(undo_file.operations), undone |-> 0, skipped |-> 0, errors |-> 0]
  /\ UNCHANGED << fs_files, fs_dirs, args, all_files, task, junk_files,
                  operations_log, duplicate_map, stats, undo_file, reaper,
                  moved_files, fs_initial, faults, interfered,
                  duplicate_file, cancelled, cleanup_worker, preview_stats, window >>

\* a real run by one worker, BY_TYPE, under every policy, to be followed by
\* further calls
InitAgain ==
  \E mode \in {"BY_TYPE"}, duplicate_handling \in DuplicateHandling,
     junk_threshold \in JunkThresholds,
     present \in {{File1, File2}, {File1, File3}}, earlier \in BOOLEAN :
    \E left \in {process_file_dest(File1, FileMeta[File1], TargetRoot, mode, junk_threshold)} :
    \E files \in {IF earlier THEN (left :> EarlierMeta) @@ [p \in present |-> FileMeta[p]]
                  ELSE [p \in present |-> FileMeta[p]]} :
      organizer_init(
         files,
         IF earlier THEN mkdir_parents(tree_dirs(present), path_parent(left))
         ELSE tree_dirs(present) \cup {TargetRoot},
         [sources |-> <<SourceRoot>>, target |-> TargetRoot,
          junk_threshold |-> junk_threshold, mode |-> mode,
          duplicate_handling |-> duplicate_handling, dry_run |-> FALSE,
          max_workers |-> 1])

\* the program, with the later calls
NextAgain ==
  \/ organize_files_scan
  \/ \E k \in DOMAIN task : process_file(k)
  \/ \E k \in DOMAIN task : move_file_safe_move(k)
  \/ \E k \in DOMAIN task : move_file_safe_log(k)
  \/ \E k \in DOMAIN task : move_file_safe_stats(k)
  \/ delete_junk_files
  \/ cleanup_prompt
  \/ remove_empty_directories_recursive
  \/ remove_empty_directory
  \/ save_operations_log
  \/ external_write
  \/ organize_files_again
  \/ undo_last_organization
  \/ undo_operation
  \/ undo_summary
  \/ undo_again

SpecAgain == InitAgain /\ [][NextAgain]_vars

\* the depths of the chain of nested directories /a/d, /a/d/d, ... the
\* reaper is called on
ReapDepths == {1, 2, MAX_ITERATIONS + 1}

\* the directory at this depth of the chain
reap_chain(depth) == SourceRoot \o [i \in 1..depth |-> <<"d">>]

\* the trees under /a the window's cleanup runs on: the chain with nothing,
\* a hidden file or a file in its last directory, beside it an empty /a/sub
\* and the protected /a/Recovery with its empty /a/Recovery/tmp
ReapTrees ==
  { [dirs  |-> {SourceRoot} \cup {reap_chain(n) : n \in 1..depth}
                 \cup (IF sibling THEN {SourceSub} ELSE {})
                 \cup (IF protected THEN {ProtectedDir, ProtectedEmpty} ELSE {}),
     files |-> IF content = "none" THEN <<>>
               ELSE (path_join(reap_chain(depth),
                               IF content = "hidden" THEN <<".","k","e","e","p">>
                               ELSE <<"y",".","j","p","g">>)
                       :> [content |-> "c5", size |-> 1,
                           mtime |-> [year |-> 2024, month |-> 3]])] :
      depth \in ReapDepths \ {MAX_ITERATIONS + 1},
      content \in {"none", "hidden", "file"},
      sibling \in BOOLEAN, protected \in BOOLEAN }
  \cup
  { [dirs  |-> {SourceRoot} \cup {reap_chain(n) : n \in 1..(MAX_ITERATIONS + 1)},
     files |-> <<>>] }

\* the window with /a as its source folder, before a cleanup
InitReap ==
  \E tree \in ReapTrees :
    /\ fs_files = tree.files
    /\ fs_dirs = tree.dirs
    /\ args = [sources |-> <<SourceRoot>>, target |-> TargetRoot,
               junk_threshold |-> MIN_JUNK_SIZE_KB_DEFAULT, mode |-> "BY_TYPE",
               duplicate_handling |-> "RENAME", dry_run |-> FALSE,
               max_workers |-> MAX_WORKERS]
    /\ pc = "idle"
    /\ all_files = <<>>
    /\ task = <<>>
    /\ junk_files = <<>>
    /\ operations_log = <<>>
    /\ duplicate_map = <<>>
    /\ stats = stats_init
    /\ undo_file = [exists |-> FALSE, operations |-> <<>>]
    /\ reaper = reaper_init
    /\ undo = [i |-> 0, undone |-> 0, skipped |-> 0, errors |-> 0]
    /\ moved_files = <<>>
    /\ fs_initial = tree.files
    /\ faults = 0
    /\ interfered = 0
    /\ calls = calls_init
    /\ duplicate_file = [exists |-> FALSE, groups |-> <<>>]
    /\ cancelled = FALSE
    /\ cleanup_worker = cleanup_worker_init
    /\ preview_stats = <<>>
    /\ window = window_init

\* cleanups from the window while another program writes
NextReap ==
  \/ cleanup_empty_folders
  \/ remove_empty_directories_recursive
  \/ remove_empty_directory
  \/ external_write_reap

SpecReap == InitReap /\ [][NextReap]_vars

(***************************************************************************)
(* Properties                                                              *)
(***************************************************************************)
\* C1: journal round-trip.  When undo_last_organization has replayed the
\* journal of a run, no other program wrote in between and no I/O failed,
\* every journalled
\* file is back at its original source path with its original content, and
\* stats['moved'] equals the number of journal entries.
C1_JournalRoundTrip ==
  (pc = "exit" /\ undo.i = 0 /\ interfered = 0 /\ faults = 0) =>
     /\ \A i \in DOMAIN operations_log :
          /\ operations_log[i].source \in DOMAIN fs_files
          /\ fs_files[operations_log[i].source] = fs_initial[operations_log[i].source]
     /\ stats.moved = Len(operations_log)

\* C2: a move_file_safe call that fails with an I/O error adds one to
\* errors, journals nothing, leaves the source file at its path and leaves
\* no new file or directory behind.
C2_MoveFailureAllOrNothing ==
  [][\A k \in DOMAIN task :
       /\ (task[k].pc = "queued" /\ task'[k].pc = "errors" /\ faults' = faults + 1) =>
             /\ operations_log' = operations_log
             /\ all_files[k] \in DOMAIN fs_files'
             /\ fs_files' = fs_files
             /\ fs_dirs' = fs_dirs
       /\ (task[k].pc = "errors" /\ task'[k].pc = "done") =>
             /\ stats'.errors = stats.errors + 1
             /\ operations_log' = operations_log]_vars

\* C3: in a single-worker run under RENAME, SKIP or MERGE_TO_DUPLICATES no
\* shutil.move lands on a path where a file already exists.
C3_NoOverwriteSingleWorker ==
  [][\A k \in DOMAIN task :
       (/\ args.max_workers = 1
        /\ args.duplicate_handling \in {"RENAME", "SKIP", "MERGE_TO_DUPLICATES"}
        /\ task[k].pc = "resolved"
        /\ task'[k].pc = "moved") =>
          task[k].dest \notin DOMAIN fs_files]_vars

\* C4: when a SKIP run without I/O failures returns, every scanned file
\* that was not journalled is still at its source path, each of them was
\* counted in skipped and none in errors.
C4_SkipLeavesSourceInPlace ==
  (pc = "returned" /\ args.duplicate_handling = "SKIP" /\ ~args.dry_run /\ faults = 0) =>
     LET not_moved == {k \in DOMAIN all_files :
                         \A i \in DOMAIN operations_log :
                            operations_log[i].source # all_files[k]}
     IN /\ \A k \in not_moved : all_files[k] \in DOMAIN fs_files
        /\ stats.skipped = Cardinality(not_moved)
        /\ stats.errors = 0

\* C5: an undo step on an entry whose original source path is occupied
\* changes no file and no directory and counts the entry as skipped.
C5_UndoNeverClobbers ==
  [][(/\ pc = "undo"
      /\ undo.i >= 1
      /\ undo'.i = undo.i - 1
      /\ path_exists(fs_files, fs_dirs, undo_file.operations[undo.i].source)) =>
        /\ fs_files' = fs_files
        /\ fs_dirs' = fs_dirs
        /\ undo'.skipped = undo.skipped + 1
        /\ undo'.undone = undo.undone
        /\ undo'.errors = undo.errors]_vars

\* the undo loop has just skipped an entry whose original path holds a file
\* of another program while the moved file is at its destination
C5_Witness ==
  /\ pc = "undo"
  /\ undo.i < Len(undo_file.operations)
  /\ undo.skipped >= 1
  /\ LET op_data == undo_file.operations[undo.i + 1]
     IN /\ op_data.source \in DOMAIN fs_files
        /\ fs_files[op_data.source].content = "other"
        /\ op_data.destination \in DOMAIN fs_files
        /\ fs_files[op_data.destination] = fs_initial[op_data.source]

\* C6: in a RENAME run with the MAX_WORKERS pool every move ends at a
\* destination no other move of the run ended at.
C6_DistinctDestinationsInPool ==
  (args.duplicate_handling = "RENAME" /\ args.max_workers = MAX_WORKERS) =>
     \A i, j \in DOMAIN moved_files :
        i # j => moved_files[i].destination # moved_files[j].destination

\* the journal holds exactly one entry per move made, with the move's source
\* and destination, and no other entry
journal_matches_moves ==
  /\ \A i \in DOMAIN moved_files :
       Cardinality({j \in DOMAIN operations_log :
                      /\ operations_log[j].source = moved_files[i].source
                      /\ operations_log[j].destination = moved_files[i].destination}) = 1
  /\ \A j \in DOMAIN operations_log :
       \E i \in DOMAIN moved_files :
          /\ operations_log[j].source = moved_files[i].source
          /\ operations_log[j].destination = moved_files[i].destination

\* C7 as claimed: at every point of a run the journal matches the moves made.
C7_JournalMatchesMovesAlways == journal_matches_moves

\* C7: whenever no move_file_safe call is between its shutil.move and its
\* journal append, the journal matches the moves made.
C7_JournalMatchesMoves ==
  (\A k \in DOMAIN task : task[k].pc # "moved") => journal_matches_moves

\* two files moved under RENAME, the second to a renamed path, both journalled
C7_Witness ==
  /\ pc = "process"
  /\ args.duplicate_handling = "RENAME"
  /\ \A k \in DOMAIN task : task[k].pc = "done"
  /\ Len(operations_log) = 2
  /\ Len(moved_files) = 2
  /\ operations_log[1].destination # operations_log[2].destination
  /\ path_basename(operations_log[1].destination)
       # path_basename(operations_log[2].destination)

\* C8: under RENAME the destination a move_file_safe call settles on does
\* not exist when it is settled.
C8_RenameReturnsFreePath ==
  [][\A k \in DOMAIN task :
       (/\ args.duplicate_handling = "RENAME"
        /\ task[k].pc = "queued"
        /\ task'[k].pc = "resolved") =>
          ~path_exists(fs_files, fs_dirs', task'[k].dest)]_vars

\* C9: a pass of the reaper removes no directory passed as a source root.
C9_RootRetention ==
  [][pc = "reap" =>
       \A i \in DOMAIN args.sources :
          args.sources[i] \in fs_dirs => args.sources[i] \in fs_dirs']_vars

\* C10: while organize_files processes files, no directory is created and no
\* file appears in a directory for which is_protected_path is true.
C10_GuardVetoOnWrites ==
  [][pc = "process" =>
       /\ \A d \in fs_dirs' \ fs_dirs : ~is_protected_path(d)
       /\ \A p \in DOMAIN fs_files' \ DOMAIN fs_files :
             ~is_protected_path(path_parent(p))]_vars

\* d is, or lies under, a path for which is_protected_path is true
under_protected_path(d) ==
  \E n \in 1..Len(d) : is_protected_path(SubSeq(d, 1, n))

\* C11: no file of a directory that is or lies under a protected path is in
\* the list of files organize_files collects, no such directory is in the
\* set scan_for_empty_directories returns, and the reaper removes none
\* (stated of every step that sets the list, sets the set or removes a
\* directory).
C11_GuardVetoOnScanAndReap ==
  [][/\ all_files' # all_files =>
          \A k \in DOMAIN all_files' :
             ~under_protected_path(path_parent(all_files'[k]))
     /\ reaper'.empty_dirs # reaper.empty_dirs =>
          \A d \in reaper'.empty_dirs : ~under_protected_path(d)
     /\ (pc = "reap" /\ fs_dirs' # fs_dirs) =>
          \A d \in fs_dirs \ fs_dirs' : ~under_protected_path(d)]_vars

\* a run has collected files and its reaper has removed a directory, while
\* the file below the protected directory and the empty directory below it
\* are where they were
C11_Witness ==
  /\ pc = "save"
  /\ all_files # <<>>
  /\ stats.protected_skipped >= 1
  /\ reaper.total_removed >= 1
  /\ \E p \in DOMAIN fs_files :
        /\ under_protected_path(path_parent(p))
        /\ \E i \in DOMAIN args.sources : path_under(p, args.sources[i])
  /\ \E d \in fs_dirs :
        /\ under_protected_path(d)
        /\ scandir_files(fs_files, d) = {}
        /\ scandir_dirs(fs_dirs, d) = {}
        /\ \E i \in DOMAIN args.sources : path_under(d, args.sources[i])

\* C12: a step of the reaper removes a directory only if the directory has
\* no entry at all when it is removed, and deletes no file.
C12_ReaperRechecksEmptiness ==
  [][(pc = "reap" /\ interfered' = interfered) =>
        /\ \A d \in fs_dirs \ fs_dirs' :
              /\ scandir_files(fs_files, d) = {}
              /\ scandir_dirs(fs_dirs, d) = {}
        /\ fs_files' = fs_files]_vars

\* a pass of the reaper is over; a candidate of its scan that holds only
\* hidden files and a candidate that another program wrote into after the
\* scan are still there
C12_Witness ==
  /\ reaper.iteration >= 1
  /\ reaper.todo = {}
  /\ \E d \in reaper.empty_dirs \cap fs_dirs :
        /\ scandir_files(fs_files, d) # {}
        /\ \A f \in scandir_files(fs_files, d) :
              is_hidden(path_basename(f)) /\ f \in DOMAIN fs_initial
  /\ \E d \in reaper.empty_dirs \cap fs_dirs :
        \E f \in scandir_files(fs_files, d) : fs_files[f].content = "other"

C14_UndoReverseOrder ==
  [][(pc = "undo" /\ undo' # undo) =>
        LET operations_data == undo_file.operations
            processed       == undo.undone + undo.skipped + undo.errors
            latest          == Len(operations_data) - processed
        IN /\ latest >= 1
           /\ undo'.undone + undo'.skipped + undo'.errors = processed + 1
           /\ fs_files' # fs_files => undo'.undone = undo.undone + 1
           /\ undo'.undone = undo.undone + 1 =>
                 fs_files' = shutil_move(fs_files,
                                         operations_data[latest].destination,
                                         operations_data[latest].source)]_vars

\* the undo of a journal of two moves has put back the file moved last and
\* not yet the file moved first
C14_Witness ==
  /\ pc = "undo"
  /\ Len(undo_file.operations) = 2
  /\ undo.i = 1
  /\ undo.undone = 1
  /\ undo_file.operations[2].source \in DOMAIN fs_files
  /\ undo_file.operations[1].source \notin DOMAIN fs_files
  /\ undo_file.operations[1].destination \in DOMAIN fs_files

\* C15: while entries are left, every step of the undo loop counts one
\* entry as undone, skipped or failed and stays in the loop, whatever
\* happened to the entry; the loop ends with undone + skipped + errors equal
\* to the number of journal entries.
C15_UndoBestEffort ==
  [][pc = "undo" =>
        /\ undo.i >= 1 =>
              /\ pc' = "undo"
              /\ undo'.i = undo.i - 1
              /\ undo'.undone + undo'.skipped + undo'.errors
                    = undo.undone + undo.skipped + undo.errors + 1
        /\ pc' # "undo" =>
              undo.undone + undo.skipped + undo.errors = Len(undo_file.operations)]_vars

\* the undo of a journal of two moves failed on the entry of the last move
\* and went on to put back the file of the first move
C15_Witness ==
  /\ pc = "undo"
  /\ undo.i = 0
  /\ Len(undo_file.operations) = 2
  /\ undo.errors = 1
  /\ undo.undone = 1
  /\ undo_file.operations[2].source \notin DOMAIN fs_files
  /\ undo_file.operations[1].source \in DOMAIN fs_files

\* C16: when every process_file call of a real run has returned, and no
\* I/O failure happened, moved + skipped + errors is the number of scanned
\* files and moved is the number of journal entries.
C16_StatsCountEveryFile ==
  (pc = "process" /\ ~args.dry_run /\ faults = 0
     /\ \A k \in DOMAIN task : task[k].pc = "done") =>
     /\ stats.moved + stats.skipped + stats.errors = Len(all_files)
     /\ stats.moved = Len(operations_log)

\* C17: a file is moved below <target>/Junk exactly when its size is below
\* junk_threshold KB, whatever the organization mode.
C17_JunkPrecedence ==
  \A i \in DOMAIN moved_files :
     LET source      == moved_files[i].source
         destination == moved_files[i].destination
     IN (fs_initial[source].size < args.junk_threshold * BytesPerKB)
          <=> path_under(destination, path_join(args.target, JUNK_FOLDER))

\* under BY_EXTENSION with threshold 10 KB the 2 KB file went to Junk and the
\* file of exactly 10 KB went to its extension folder
C17_Witness ==
  /\ args.mode = "BY_EXTENSION"
  /\ args.junk_threshold = MIN_JUNK_SIZE_KB_DEFAULT
  /\ Len(moved_files) = 2
  /\ \E i, j \in DOMAIN moved_files :
        /\ moved_files[i].source = File1
        /\ path_parent(moved_files[i].destination) = path_join(TargetRoot, JUNK_FOLDER)
        /\ moved_files[j].source = File3
        /\ path_parent(moved_files[j].destination)
              = path_join(path_join(TargetRoot, <<"B","y"," ","E","x","t","e","n","s","i","o","n">>),
                          <<"J","P","G">>)

\* the first '<stem> (n)<suffix>' next to candidate, n in 1..limit, that
\* does not exist; None when all of them exist
first_free_rename(files, dirs, candidate, limit) ==
  LET free == {n \in 1..limit : ~path_exists(files, dirs, rename_candidate(candidate, n))}
  IN IF free = {} THEN None
     ELSE rename_candidate(candidate, CHOOSE n \in free : \A m \in free : n <= m)

\* the policy table, for a step in which call k of move_file_safe settles
\* its destination or skips; rename_dests(candidate, dirs) is what RENAME
\* may yield for an occupied candidate
policy_table(k, rename_dests(_, _)) ==
  (task[k].pc = "queued" /\ task'[k].pc \in {"resolved", "skipped"}) =>
     LET candidate == process_file_dest(all_files[k], fs_files[all_files[k]], args.target,
                                        args.mode, args.junk_threshold)
         made      == mkdir_parents(fs_dirs, path_parent(candidate))
         policy    == args.duplicate_handling
         duplicates_folder == path_join(path_parent(candidate),
                                        <<"D","u","p","l","i","c","a","t","e","s">>)
     IN IF ~path_exists(fs_files, made, candidate)
        THEN task'[k].pc = "resolved" /\ task'[k].dest = candidate
        ELSE /\ policy = "SKIP" <=> task'[k].pc = "skipped"
             /\ policy = "REPLACE" => task'[k].dest = candidate
             /\ policy = "MERGE_TO_DUPLICATES" =>
                   /\ task'[k].dest = path_join(duplicates_folder, path_basename(candidate))
                   /\ duplicates_folder \in fs_dirs'
             /\ policy = "RENAME" => task'[k].dest \in rename_dests(candidate, made)

\* RENAME as the first free ' (n)' name, however many probes it takes
rename_first_free(candidate, dirs) ==
  {first_free_rename(fs_files, dirs, candidate, RENAME_SAFETY_LIMIT + 2)}

\* RENAME as the first free ' (n)' name of the first RENAME_SAFETY_LIMIT,
\* and the timestamp name when none of them is free
rename_first_free_or_timestamp(candidate, dirs) ==
  LET probed == first_free_rename(fs_files, dirs, candidate, RENAME_SAFETY_LIMIT)
  IN IF probed # None THEN {probed}
     ELSE {timestamp_candidate(candidate, now) : now \in Clock}

\* C18 as stated: a free candidate is used unchanged; for an occupied one
\* SKIP skips, REPLACE keeps it, MERGE_TO_DUPLICATES yields
\* <parent>/Duplicates/<name> and makes that directory, RENAME yields the
\* first non-existing '<stem> (n)<suffix>', n = 1, 2, ...
C18_PolicyTableUnboundedRename ==
  [][\A k \in DOMAIN task : policy_table(k, rename_first_free)]_vars

\* C18: the same table, RENAME yielding the first non-existing
\* '<stem> (n)<suffix>' for n = 1 .. 1000 and '<stem>_<timestamp><suffix>'
\* when all 1000 exist.
C18_PolicyTable ==
  [][\A k \in DOMAIN task : policy_table(k, rename_first_free_or_timestamp)]_vars

\* with ' (1)' .. ' (999)' taken, the first file was moved to ' (1000)' and
\* the second call settled on the timestamp name
C18_Witness ==
  /\ args.duplicate_handling = "RENAME"
  /\ Len(operations_log) = 1
  /\ \E k \in DOMAIN task :
        /\ task[k].pc = "resolved"
        /\ \E candidate \in {path_join(path_parent(task[k].dest), path_basename(all_files[k]))} :
              /\ operations_log[1].destination
                    = rename_candidate(candidate, RENAME_SAFETY_LIMIT)
              /\ \E now \in Clock : task[k].dest = timestamp_candidate(candidate, now)

\* the destinations of the files moved so far whose content hashes to h, in
\* the order of the moves
moved_with_hash(h) ==
  LET listed == SelectSeq(moved_files,
                          LAMBDA m : calculate_file_hash(fs_initial[m.source]) = h)
  IN [i \in 1..Len(listed) |-> listed[i].destination]

\* C19: when every process_file call of a run without I/O failure has
\* returned, under a policy that computes the hash, the duplicate map has
\* one key per content hash of a moved file, listing the final destinations
\* of the files with that hash in move order, and stats['duplicates'] is the
\* number of listed paths less the number of keys.
C19_DuplicateTally ==
  (/\ pc = "process"
   /\ faults = 0
   /\ args.duplicate_handling # "SKIP"
   /\ \A k \in DOMAIN task : task[k].pc = "done") =>
     LET hashes == {calculate_file_hash(fs_initial[moved_files[i].source]) :
                      i \in DOMAIN moved_files}
     IN /\ DOMAIN duplicate_map = hashes
        /\ \A h \in hashes : duplicate_map[h] = moved_with_hash(h)
        /\ stats.duplicates = Len(moved_files) - Cardinality(hashes)

\* C20: in a run without I/O failure every journal entry carries the content
\* hash of the file it moved, under every policy, and once the call has
\* returned the duplicate map has that hash as a key.
C20_HashUnderEveryPolicy ==
  faults = 0 =>
     \A i \in DOMAIN operations_log :
        LET file_hash == calculate_file_hash(fs_initial[operations_log[i].source])
        IN /\ operations_log[i].file_hash # None
           /\ operations_log[i].file_hash = file_hash
           /\ (\A k \in DOMAIN task : task[k].pc = "done")
                 => file_hash \in DOMAIN duplicate_map

\* C24: no step of organize_files with dry_run = True changes a file, a
\* directory, the journal, the duplicate map, the journal file or the
\* duplicate-map file.
C24_DryRunChangesNothing ==
  [][(args.dry_run /\ pc \in {"organize_files", "process", "cleanup", "reap", "save"}) =>
        /\ fs_files' = fs_files
        /\ fs_dirs' = fs_dirs
        /\ operations_log' = operations_log
        /\ duplicate_map' = duplicate_map
        /\ undo_file' = undo_file
        /\ duplicate_file' = duplicate_file]_vars

\* a dry run over two files, one of them junk, has returned
C24_Witness ==
  /\ args.dry_run
  /\ pc = "returned"
  /\ Len(all_files) = 2
  /\ \A k \in DOMAIN task : task[k].pc = "done"
  /\ junk_files # <<>>
  /\ fs_files = fs_initial
  /\ ~undo_file.exists

\* C23: when a real run that appended to the journal has returned, the
\* journal file holds the Operations appended during that run, in order.
C23_JournalFileHoldsTheRun ==
  (pc = "returned" /\ ~args.dry_run /\ faults = 0
     /\ Len(operations_log) > calls.log_start) =>
     /\ undo_file.exists
     /\ undo_file.operations
          = SubSeq(operations_log, calls.log_start + 1, Len(operations_log))

preview_bucket(category) == path_str(args.target) \o <<"/">> \o category

\* C30: for every file the preview analysed, the category it reported names
\* the directory the run resolves the file into (under MERGE_TO_DUPLICATES a
\* file whose name is taken goes to the Duplicates folder of that directory).
C30_PreviewNamesTheRunsBucket ==
  \A k \in DOMAIN task :
    (task[k].dest # None /\ all_files[k] \in DOMAIN preview_stats) =>
       \E bucket \in {preview_bucket(preview_stats[all_files[k]])},
          dir \in {path_parent(task[k].dest)} :
         \/ path_str(dir) = bucket
         \/ /\ args.duplicate_handling = "MERGE_TO_DUPLICATES"
            /\ path_basename(dir) = <<"D","u","p","l","i","c","a","t","e","s">>
            /\ path_str(path_parent(dir)) = bucket

\* after the preview the run has moved a file of exactly the junk threshold
\* that has no suffix; the other file is junk in the preview
C30_Witness ==
  /\ DOMAIN preview_stats = {FileP2, File2}
  /\ args.junk_threshold = MIN_JUNK_SIZE_KB_DEFAULT
  /\ args.mode = "BY_EXTENSION"
  /\ fs_initial[FileP2].size = 10240
  /\ preview_stats[File2] = JUNK_FOLDER
  /\ Len(operations_log) = 1
  /\ \E k \in DOMAIN task :
       /\ all_files[k] = FileP2
       /\ task[k].dest # None
       /\ task[k].dest \in DOMAIN fs_files
       /\ path_basename(path_parent(task[k].dest)) = <<"N","O","_","E","X","T","E","N","S","I","O","N">>

\* C21: once self.cancelled is set, process_files_batch begins no file that is
\* still queued, and when its loop stops every file the run has moved is in the
\* journal with the destination it was moved to.
C21_CooperativeCancellation ==
  [][/\ (cancelled /\ pc = "batch" /\ pc' = "batch") =>
          \A k \in DOMAIN task : task[k].pc = "queued" => task'[k].pc = "queued"
     /\ (pc = "batch" /\ pc' # "batch") =>
          \A i \in DOMAIN moved_files :
            \E j \in (calls.log_start + 1)..Len(operations_log) :
              /\ operations_log[j].source = moved_files[i].source
              /\ operations_log[j].destination = moved_files[i].destination]_vars

\* a run cancelled while it worked on its first file: the loop has stopped,
\* that file is moved and journalled, the second file was never begun
C21_Witness ==
  /\ cancelled
  /\ calls.cancel_operation = 1
  /\ calls.cancel_start = 0
  /\ pc = "reap_improved"
  /\ Len(all_files) = 2
  /\ task[1].pc = "done"
  /\ task[2].pc = "queued"
  /\ Len(moved_files) = 1
  /\ Len(operations_log) = 1
  /\ operations_log[1].destination = moved_files[1].destination
  /\ moved_files[1].destination \in DOMAIN fs_files
  /\ all_files[2] \in DOMAIN fs_files


\* C25: under SKIP, a file of a real run whose candidate destination exists
\* when process_files_batch takes it is not moved: the loop is done with it,
\* stats['skipped'] has grown by one and stats['moved'] has not.
C25_SkipLeavesTheSource ==
  [][\A k \in DOMAIN task :
       (/\ args.duplicate_handling = "SKIP"
        /\ ~args.dry_run
        /\ pc = "batch"
        /\ task[k].pc = "begun"
        /\ k \in DOMAIN task'
        /\ task'[k].pc # "begun"
        /\ path_exists(fs_files, fs_dirs,
                       get_destination_path(fs_files, all_files[k], args.target, args.mode)))
       => /\ task'[k].pc = "done"
          /\ all_files[k] \in DOMAIN fs_files'
          /\ stats'.skipped = stats.skipped + 1
          /\ stats'.moved = stats.moved]_vars

\* C26: every file a run has moved that was smaller than junk_threshold KB
\* lies in the Junk folder of the target, whatever the mode.
C26_JunkGoesToTheJunkFolder ==
  \A i \in DOMAIN moved_files :
    (moved_files[i].source \in DOMAIN fs_initial
     /\ fs_initial[moved_files[i].source].size < args.junk_threshold * BytesPerKB)
    => path_parent(moved_files[i].destination) = path_join(args.target, JUNK_FOLDER)


\* C27: no source root is ever among the candidates of a scan of the improved
\* reaper, and no source root that exists is ever removed.
C27_SourceRootsAreKept ==
  [][\A i \in 1..Len(args.sources) :
       /\ args.sources[i] \notin reaper'.todo
       /\ args.sources[i] \notin cleanup_worker'.todo
       /\ args.sources[i] \in fs_dirs => args.sources[i] \in fs_dirs']_vars

\* C28: an organize_files call during which cancel_operation was not called
\* works through every file it found, and in a real run its reaper leaves no
\* empty directory under the sources.
C28_CancellationIsRunScoped ==
  (pc = "complete" /\ all_files # <<>> /\ calls.cancel_operation = calls.cancel_start) =>
     /\ \A k \in DOMAIN task : task[k].pc = "done"
     /\ ~args.dry_run =>
          scan_for_empty_directories_improved(fs_files, fs_dirs, args.sources) = {}


\* C22: no directory is removed while the loop of an organize run over the
\* files of the source folders is in progress.
C22_ReaperAfterTheMoves ==
  [][(fs_dirs' # fs_dirs /\ fs_dirs' \subseteq fs_dirs) => pc # "batch"]_vars
====
